---- MODULE Spec2Model ----
(***************************************************************************)
(* State-machine model of the PolarBear-3D viewer session (src/main.py,    *)
(* class MainWindow): the import / tessellation pipeline, the display-mode *)
(* handlers and the section / measurement tools.                           *)
(*                                                                         *)
(* Numbers that are floats in the source are scaled by 100 (opacity 0.04   *)
(* is 4, linear deflection 0.1 is 10).                                     *)
(***************************************************************************)
EXTENDS Integers, Sequences, FiniteSets, TLC

(* ---------------------------- bounds ----------------------------------- *)
\* most save_recent_file calls followed on a stored list
MaxSaves == 3
\* files beyond the capacity of the recent-files list
ExtraFiles == 1
\* number of distinct files per extension that the user can open
NumFiles == 1
\* most simplify / subdivide edits applied to one mesh
MaxEdits == 1
\* most QTimer.singleShot callbacks pending at once
MaxTimers == 1
\* most clipped-mesh actors in the scene
MaxClips == 2
\* most calls of setup_top_toolbar after the construction
MaxSetups == 1
\* most faces of a shape handed to the tessellator
MaxFaces == 3
\* most nodes of the triangulation of one face
MaxNodes == 1

(* ------------------------- program constants --------------------------- *)
Levels == {"Low", "Medium", "High"}
\* texts on_precision_changed may be called with: the keys of the table and
\* one text that is not a key
PrecisionTexts == Levels \cup {"Ultra"}
Axes == {"x", "y", "z"}
Exts == {".step", ".stl"}
Paths == Exts \X (1..NumFiles)
Engines == {"B-Rep (pythonocc)", "B-Rep (OCP)", "Mesh (Preview)"}
Modes == {"Shaded", "ShadedWithEdges", "Wireframe", "Transparent", "Points"}
\* values offered to the opacity slider (0..100 in the source)
Opacities == {50, 100}
TransparentOpacity == 4
DefaultOpacity == 100
DarkEdge == "#333333"
LightEdge == "#d6d6d6"

\* save_recent_file: if len(self.recent_files) > 10
MaxRecent == 10

\* setup_top_toolbar: the four toolbars and the number of entries it adds to
\* each (create_tool_button calls and addWidget)
ToolbarNames == {"tb_file", "tb_view", "tb_render", "tb_tools"}
Entries(name) ==
  CASE name = "tb_file" -> 3
    [] name = "tb_view" -> 8
    [] name = "tb_render" -> 7
    [] OTHER -> 8
\* findChildren(QToolBar): the four toolbars and the toolbar below the 3D
\* view, which has no title and so no entry in the View menu
AllToolbars == ToolbarNames \cup {"view_bottom_toolbar"}
\* self.resize(700, 1000) in MainWindow.__init__
InitialWidth == 700
\* widths on both sides of the two breakpoints
Widths == {400, 479, 480, 700, 799, 800, 1000}

\* setWindowOpacity(0.7) in the independent mode, in hundredths
IndependentOpacity == 70
\* the value of entered_from before the mode was entered
NoEntry == [tb |-> [n \in AllToolbars |-> TRUE], log |-> TRUE]

\* the toggle buttons load_settings restores, in the order it restores them,
\* each with its key in the store and the default of settings.value(key, ...)
Buttons ==
  <<"grid_btn", "wireframe_btn", "light_btn", "axes_btn", "floor_btn",
    "bounds_btn">>
ButtonSet == {Buttons[i] : i \in 1..Len(Buttons)}
Default(btn) == btn = "axes_btn"
\* the store before the first save_settings: no key is set
NoSettings == [saved |-> FALSE, value |-> [b \in ButtonSet |-> FALSE]]

\* the table of load_current_shape with the rows of Low and High exchanged
params_exchanged(level) ==
  CASE level = "Low" -> <<2, 10>>
    [] level = "Medium" -> <<10, 50>>
    [] level = "High" -> <<50, 80>>
    [] OTHER -> <<10, 50>>

\* load_current_shape: params.get(self.current_precision, (0.1, 0.5))
params(level) ==
  CASE level = "Low" -> <<50, 80>>
    [] level = "Medium" -> <<10, 50>>
    [] level = "High" -> <<2, 10>>
    [] OTHER -> <<10, 50>>

(* ------------------------------ values --------------------------------- *)
\* None for self.current_shape / self.current_mesh / an actor reference
NoShape == [file |-> 0, lin |-> 0, ang |-> 0]
NoMesh == [file |-> 0, how |-> "none", lin |-> 0, ang |-> 0, edits |-> 0,
           scalars |-> {}]
NoActor == [none |-> TRUE, of_current |-> FALSE, inScene |-> FALSE,
            visible |-> FALSE, style |-> "none", opacity |-> 0,
            show_edges |-> FALSE, interpolation |-> "none"]
NoEdges == [none |-> TRUE, of_current |-> FALSE, inScene |-> FALSE,
            visible |-> FALSE, color |-> "none"]

\* no pv.PolyData returned by _shape_to_pyvista_mesh yet
NoPolyData == [built |-> FALSE, points |-> <<>>, cells |-> <<>>]

\* reader.Shape(): a new TopoDS_Shape that carries no triangulation yet
ReadShape(n) == [file |-> n, lin |-> 0, ang |-> 0]

\* pv.read(path)
ReadMesh(n, how) ==
  [file |-> n, how |-> how, lin |-> 0, ang |-> 0, edits |-> 0, scalars |-> {}]

\* The kernel keeps a face triangulation whose deflection is consistent with
\* the requested one (current < 1.1 * required); otherwise it re-meshes.
IsConsistent(cur, req) == cur * 10 < 11 * req

\* BRepMesh_IncrementalMesh(shape, lin, False, ang, True): mutates the
\* triangulation stored on the faces of shape
BRepMesh_IncrementalMesh(shape, lin, ang) ==
  IF shape.lin # 0 /\ IsConsistent(shape.lin, lin)
  THEN shape
  ELSE [shape EXCEPT !.lin = lin, !.ang = ang]

\* _shape_to_pyvista_mesh: the mesh collected from the face triangulations
\* that the shape carries after the meshing pass
ShapeToPyvistaMesh(shape, lin, ang) ==
  LET s == BRepMesh_IncrementalMesh(shape, lin, ang)
  IN [file |-> s.file, how |-> "tess", lin |-> s.lin, ang |-> s.ang,
      edits |-> 0, scalars |-> {}]

\* plotter.add_mesh(self.current_mesh, ..., smooth_shading=True): a new
\* visible surface actor of the current mesh (the base colour of the actor
\* is not modelled)
AddMesh(opacity) ==
  [none |-> FALSE, of_current |-> TRUE, inScene |-> TRUE, visible |-> TRUE,
   style |-> "surface", opacity |-> opacity, show_edges |-> FALSE,
   interpolation |-> "phong"]

\* plotter.add_mesh(self.current_mesh.extract_feature_edges(...),
\*                  color="black", line_width=1)
AddEdges(visible) ==
  [none |-> FALSE, of_current |-> TRUE, inScene |-> TRUE, visible |-> visible,
   color |-> "black"]

\* plotter.clear() removes every actor from the scene; the Python references
\* held by the session keep pointing to the removed actors
Cleared(actor) == [actor EXCEPT !.inScene = FALSE]

\* self.current_mesh = <new object>: an actor built earlier now shows a mesh
\* that is no longer the current one
Stale(actor) == [actor EXCEPT !.of_current = FALSE]

VARIABLES
  engine,            \* ENGINE_TYPE, fixed at start-up
  current_shape, current_mesh, mesh_actor, edge_actor,
  loose_edges,       \* the scene holds an edge overlay no attribute refers to
  clip_actors,       \* clipped-mesh actors that add_mesh_clip_plane put in the scene
  current_opacity, current_precision, show_mesh_edges,
  is_sectioning, is_measuring,
  plane_widget,      \* axis of the latest clip-plane widget, "none" if none
  progress_bar, timers,
  last_mode,         \* history: the display mode applied last, "none" at start
  export_result,     \* history: how the last export_file call ended
  section_log,       \* history: the message logged by the last call of the
                     \* section tool, "silent" if it logged nothing
  measure_widgets,   \* number of measurement widgets of the plotter
  picking,           \* point picking is enabled on the plotter
  btn_checked,       \* isChecked() of the persisted toggle buttons
  settings,          \* the QSettings store "Trae" / "PolarBear"
  load_result,       \* history: how the last load_settings call ended
  width,             \* self.width()
  breaks,            \* the toolbars that have a toolbar break in front
  toolbars,          \* per toolbar name: instances in the window's toolbar
                     \* area and entries of the instance the attribute names
  removed_toolbars,  \* toolbars taken out by removeToolBar (Qt hides them,
                     \* it does not delete them)
  op_report,         \* history: how the last analysis tool or subdivide_mesh
                     \* call ended, "none" before the first call
  simplify_report,   \* history: the message box the last simplify_mesh call
                     \* ended with, "none" before the first call
  section_btn, measure_btn,  \* isChecked() of the two checkable tool buttons
  recent_files,      \* self.recent_files, as stored under "fileList"; the
                     \* list is followed through save_recent_file only
  is_independent_mode,
  tb_visible,        \* per toolbar name: isVisible() of the toolbar
  tb_was,            \* per toolbar name: its property "was_visible"
  log_visible,       \* log_container.isVisible()
  log_was,           \* the property "was_visible" of log_container
  menubar_visible, float_visible, progress_visible,
  window_opacity,    \* windowOpacity() in hundredths
  entered_from,      \* history: the visibility of the toolbars and of the log
                     \* area when the independent mode was entered last
  is_rotating,
  rotation_timer,    \* rotation_timer.isActive()
  rotate_btn, float_rotate_btn,  \* isChecked() of the two rotation buttons
  screenshot_result, \* history: how the last take_screenshot call ended
  saves,             \* number of save_recent_file calls so far
  last_saved,        \* history: the argument of the last save_recent_file call
  \* _shape_to_pyvista_mesh, statement by statement
  faces,             \* the faces of the shape, in the order of TopExp_Explorer
  explorer,          \* index of explorer.Current(); 0: no call in progress
  vertices, triangles,
  polydata           \* the value returned, NoPolyData before the return

vars == <<engine, current_shape, current_mesh, mesh_actor, edge_actor,
          loose_edges, clip_actors,
          current_opacity, current_precision, show_mesh_edges,
          is_sectioning, is_measuring, plane_widget,
          progress_bar, timers, last_mode, export_result,
          section_log, measure_widgets, picking, simplify_report,
          op_report, btn_checked, settings, load_result,
          width, breaks, toolbars, removed_toolbars,
          section_btn, measure_btn, recent_files, saves, last_saved,
          is_independent_mode, tb_visible, tb_was, log_visible, log_was,
          menubar_visible, float_visible, progress_visible, window_opacity,
          entered_from,
          is_rotating, rotation_timer, rotate_btn, float_rotate_btn,
          screenshot_result,
          faces, explorer, vertices, triangles, polydata>>

\* the attributes of the main window
session == <<engine, current_shape, current_mesh, mesh_actor, edge_actor,
             loose_edges, clip_actors, current_opacity, current_precision,
             show_mesh_edges, is_sectioning, is_measuring, plane_widget,
             progress_bar, timers, last_mode, export_result,
             section_log, measure_widgets, picking, simplify_report,
             op_report>>

\* the toolbar buttons and the settings store
ui == <<btn_checked, settings, load_result, width, breaks, toolbars,
        removed_toolbars>>

\* the checkable buttons of the tool toolbar
tool_btns == <<section_btn, measure_btn>>

\* the widgets of the window outside the persisted buttons
\* the recent-files list and its history
recent == <<recent_files, saves, last_saved>>

\* the independent 3D-view mode and the widgets it hides and shows
indep == <<is_independent_mode, tb_visible, tb_was, log_visible, log_was,
           menubar_visible, float_visible, progress_visible, window_opacity,
           entered_from>>

\* the automatic rotation
rotation == <<is_rotating, rotation_timer, rotate_btn, float_rotate_btn,
              screenshot_result>>

widgets == <<tool_btns, recent, indep, rotation>>

\* the locals of _shape_to_pyvista_mesh
tess == <<faces, explorer, vertices, triangles, polydata>>

\* self.plotter is created for the two PyVista engines only
plotter == engine # "B-Rep (pythonocc)"

\* MainWindow.__init__, with the engine given
InitSession(e) ==
  /\ engine = e
  /\ current_shape = NoShape
  /\ current_mesh = NoMesh
  /\ mesh_actor = NoActor
  /\ edge_actor = NoEdges
  /\ loose_edges = FALSE
  /\ clip_actors = 0
  /\ current_opacity = 100
  /\ current_precision = "Medium"
  /\ show_mesh_edges = FALSE
  /\ is_sectioning = FALSE
  /\ is_measuring = FALSE
  /\ plane_widget = "none"
  /\ progress_bar = 0
  /\ timers = 0
  /\ last_mode = "none"
  /\ export_result = "none"
  /\ section_log = "none"
  /\ simplify_report = "none"
  /\ op_report = "none"
  /\ settings = NoSettings
  /\ btn_checked = [b \in ButtonSet |-> Default(b)]
  /\ load_result = "ok"
  /\ width = InitialWidth
  /\ breaks = {"tb_render"}
  /\ toolbars = [n \in ToolbarNames |-> [inWindow |-> 1, entries |-> Entries(n)]]
  /\ removed_toolbars = 0
  /\ section_btn = FALSE
  /\ measure_btn = FALSE
  /\ saves = 0
  /\ last_saved = <<>>
  /\ is_independent_mode = FALSE
  /\ tb_visible = [n \in AllToolbars |-> TRUE]
  /\ tb_was = [n \in AllToolbars |-> FALSE]
  /\ is_rotating = FALSE
  /\ rotation_timer = FALSE
  /\ rotate_btn = FALSE
  /\ float_rotate_btn = FALSE
  /\ screenshot_result = "none"
  /\ log_visible = TRUE
  /\ log_was = FALSE
  /\ menubar_visible = TRUE
  /\ float_visible = FALSE
  /\ progress_visible = TRUE
  /\ window_opacity = 100
  /\ entered_from = NoEntry
  /\ measure_widgets = 0
  /\ picking = FALSE

\* MainWindow.__init__; no tessellation call is followed statement by statement
Init ==
  /\ \E e \in Engines : InitSession(e)
  /\ recent_files = <<>>
  /\ faces = <<>>
  /\ explorer = 0
  /\ vertices = <<>>
  /\ triangles = <<>>
  /\ polydata = NoPolyData

(* -------------------------- display modes ------------------------------ *)
set_shaded_mode ==
  /\ IF ~mesh_actor.none
     THEN /\ mesh_actor' = [mesh_actor EXCEPT !.visible = TRUE,
                               !.style = "surface",
                               !.opacity = current_opacity,
                               !.show_edges = FALSE]
          /\ edge_actor' = IF ~edge_actor.none
                           THEN [edge_actor EXCEPT !.visible = show_mesh_edges,
                                                   !.color = DarkEdge]
                           ELSE edge_actor
          /\ last_mode' = "Shaded"
     ELSE UNCHANGED <<mesh_actor, edge_actor, last_mode>>
  /\ UNCHANGED <<tess, ui, widgets, op_report, simplify_report, export_result, section_log, measure_widgets, picking,
                 engine, loose_edges, clip_actors,
                 current_shape, current_mesh, current_opacity,
                 current_precision, show_mesh_edges, is_sectioning,
                 is_measuring, plane_widget, progress_bar, timers>>

set_wireframe_mode ==
  /\ IF ~mesh_actor.none
     THEN /\ mesh_actor' = [mesh_actor EXCEPT !.visible = FALSE]
          /\ edge_actor' = IF ~edge_actor.none
                           THEN [edge_actor EXCEPT !.visible = TRUE,
                                                   !.color = LightEdge]
                           ELSE edge_actor
          /\ last_mode' = "Wireframe"
     ELSE UNCHANGED <<mesh_actor, edge_actor, last_mode>>
  /\ UNCHANGED <<tess, ui, widgets, op_report, simplify_report, export_result, section_log, measure_widgets, picking,
                 engine, loose_edges, clip_actors,
                 current_shape, current_mesh, current_opacity,
                 current_precision, show_mesh_edges, is_sectioning,
                 is_measuring, plane_widget, progress_bar, timers>>

\* hasattr(self, 'opacity_slider') is never true: the slider of
\* show_tool_params is a local variable
set_transparent_mode ==
  /\ IF ~mesh_actor.none
     THEN /\ mesh_actor' = [mesh_actor EXCEPT !.visible = TRUE,
                               !.style = "surface",
                               !.opacity = TransparentOpacity,
                               !.show_edges = FALSE]
          /\ edge_actor' = IF ~edge_actor.none
                           THEN [edge_actor EXCEPT !.visible = TRUE,
                                                   !.color = LightEdge]
                           ELSE edge_actor
          /\ last_mode' = "Transparent"
     ELSE UNCHANGED <<mesh_actor, edge_actor, last_mode>>
  /\ UNCHANGED <<tess, ui, widgets, op_report, simplify_report, export_result, section_log, measure_widgets, picking,
                 engine, loose_edges, clip_actors,
                 current_shape, current_mesh, current_opacity,
                 current_precision, show_mesh_edges, is_sectioning,
                 is_measuring, plane_widget, progress_bar, timers>>

set_surface_with_edges_mode ==
  /\ IF ~mesh_actor.none
     THEN /\ mesh_actor' = [mesh_actor EXCEPT !.visible = TRUE,
                               !.style = "surface",
                               !.show_edges = TRUE,
                               !.opacity = current_opacity]
          /\ edge_actor' = IF ~edge_actor.none
                           THEN [edge_actor EXCEPT !.visible = FALSE]
                           ELSE edge_actor
          /\ last_mode' = "ShadedWithEdges"
     ELSE UNCHANGED <<mesh_actor, edge_actor, last_mode>>
  /\ UNCHANGED <<tess, ui, widgets, op_report, simplify_report, export_result, section_log, measure_widgets, picking,
                 engine, loose_edges, clip_actors,
                 current_shape, current_mesh, current_opacity,
                 current_precision, show_mesh_edges, is_sectioning,
                 is_measuring, plane_widget, progress_bar, timers>>

\* set_points_mode implemented by turning the mesh into its point cloud
set_points_mode_converts ==
  /\ IF ~mesh_actor.none
     THEN /\ mesh_actor' = [mesh_actor EXCEPT !.visible = TRUE,
                                              !.style = "points"]
          /\ edge_actor' = IF ~edge_actor.none
                           THEN [edge_actor EXCEPT !.visible = FALSE]
                           ELSE edge_actor
          /\ current_mesh' = [current_mesh EXCEPT !.how = "points"]
          /\ last_mode' = "Points"
     ELSE UNCHANGED <<mesh_actor, edge_actor, last_mode, current_mesh>>
  /\ UNCHANGED <<tess, ui, widgets, op_report, simplify_report, export_result, section_log, measure_widgets, picking,
                 engine, loose_edges, clip_actors, current_shape, current_opacity,
                 current_precision, show_mesh_edges, is_sectioning,
                 is_measuring, plane_widget, progress_bar, timers>>

set_points_mode ==
  /\ IF ~mesh_actor.none
     THEN /\ mesh_actor' = [mesh_actor EXCEPT !.visible = TRUE,
                                              !.style = "points"]
          /\ edge_actor' = IF ~edge_actor.none
                           THEN [edge_actor EXCEPT !.visible = FALSE]
                           ELSE edge_actor
          /\ last_mode' = "Points"
     ELSE UNCHANGED <<mesh_actor, edge_actor, last_mode>>
  /\ UNCHANGED <<tess, ui, widgets, op_report, simplify_report, export_result, section_log, measure_widgets, picking,
                 engine, loose_edges, clip_actors,
                 current_shape, current_mesh, current_opacity,
                 current_precision, show_mesh_edges, is_sectioning,
                 is_measuring, plane_widget, progress_bar, timers>>

\* set_flat_shading_mode / set_smooth_shading_mode
SetInterpolation(value) ==
  /\ mesh_actor' = IF ~mesh_actor.none
                   THEN [mesh_actor EXCEPT !.interpolation = value]
                   ELSE mesh_actor
  /\ UNCHANGED <<tess, ui, widgets, op_report, simplify_report, export_result, section_log, measure_widgets, picking,
                 engine, loose_edges, clip_actors, current_shape, current_mesh, edge_actor,
                 current_opacity, current_precision, show_mesh_edges,
                 is_sectioning, is_measuring, plane_widget, progress_bar,
                 timers, last_mode>>

set_flat_shading_mode == SetInterpolation("flat")

set_smooth_shading_mode == SetInterpolation("phong")

\* what the handler of display mode m makes of the actor pair
\* v = [mactor, eactor] when a mesh actor exists (the handlers above as a
\* function, for compositions of mode switches)
ApplyMode(m, v) ==
  LET a == v.mactor
      e == v.eactor
      Edges(vis, col) ==
        IF e.none THEN e
        ELSE [e EXCEPT !.visible = vis,
                       !.color = IF col = "keep" THEN e.color ELSE col]
  IN IF a.none THEN v
     ELSE CASE m = "Shaded" ->
                 [mactor |-> [a EXCEPT !.visible = TRUE, !.style = "surface",
                                       !.opacity = current_opacity,
                                       !.show_edges = FALSE],
                  eactor |-> Edges(show_mesh_edges, DarkEdge)]
            [] m = "Wireframe" ->
                 [mactor |-> [a EXCEPT !.visible = FALSE],
                  eactor |-> Edges(TRUE, LightEdge)]
            [] m = "Transparent" ->
                 [mactor |-> [a EXCEPT !.visible = TRUE, !.style = "surface",
                                       !.opacity = TransparentOpacity,
                                       !.show_edges = FALSE],
                  eactor |-> Edges(TRUE, LightEdge)]
            [] m = "ShadedWithEdges" ->
                 [mactor |-> [a EXCEPT !.visible = TRUE, !.style = "surface",
                                       !.show_edges = TRUE,
                                       !.opacity = current_opacity],
                  eactor |-> Edges(FALSE, "keep")]
            [] OTHER ->
                 [mactor |-> [a EXCEPT !.visible = TRUE, !.style = "points"],
                  eactor |-> Edges(FALSE, "keep")]

(* ---------------------------- recent files ---------------------------- *)
\* A path is <<extension, file>>; <<extension, file, "rel">> is a relative
\* spelling of the same file and <<>> the empty path.
\* os.path.abspath(path)
abspath(path) == <<path[1], path[2]>>

\* list.remove(x): the first occurrence of x leaves the list
Remove(list, x) ==
  LET i == CHOOSE k \in 1..Len(list) :
             list[k] = x /\ \A j \in 1..(k - 1) : list[j] # x
  IN SubSeq(list, 1, i - 1) \o SubSeq(list, i + 1, Len(list))

\* save_recent_file on the list, the early return on an empty path included
SaveRecentFile(list, path) ==
  IF path = <<>> THEN list
  ELSE LET p == abspath(path)
           removed == IF \E k \in 1..Len(list) : list[k] = p
                      THEN Remove(list, p) ELSE list
           inserted == <<p>> \o removed
       IN IF Len(inserted) > MaxRecent
          THEN SubSeq(inserted, 1, MaxRecent) ELSE inserted

\* the paths save_recent_file is called with: one more file than the list
\* holds, each under its absolute and a relative spelling, and the empty path
RecentFiles == {".step"} \X (1..(MaxRecent + ExtraFiles))
RecentPaths ==
  RecentFiles \cup {<<f[1], f[2], "rel">> : f \in RecentFiles} \cup {<<>>}

\* the lists load_recent_files may find in the store: what earlier runs of
\* save_recent_file left there, here the first n files, most recent first
StoredLists ==
  {[i \in 1..n |-> <<".step", n + 1 - i>>] : n \in {0, MaxRecent - 1, MaxRecent}}

\* save_recent_file that appends the path at the end of the list
save_recent_file_appends(path) ==
  /\ saves < MaxSaves
  /\ saves' = saves + 1
  /\ last_saved' = path
  /\ recent_files' =
       IF path = <<>> THEN recent_files
       ELSE LET p == abspath(path)
                kept == SelectSeq(recent_files, LAMBDA x : x # p)
                added == kept \o <<p>>
            IN IF Len(added) > MaxRecent
               THEN SubSeq(added, 1, MaxRecent) ELSE added
  /\ UNCHANGED <<tess, ui, tool_btns, indep, rotation>>
  /\ UNCHANGED session

\* save_recent_file(path), as load_step calls it on the path it is given
save_recent_file(path) ==
  /\ saves < MaxSaves
  /\ saves' = saves + 1
  /\ last_saved' = path
  /\ recent_files' = SaveRecentFile(recent_files, path)
  /\ UNCHANGED <<tess, ui, tool_btns, indep, rotation>>
  /\ UNCHANGED session

\* clear_recent_files
clear_recent_files ==
  /\ recent_files' = <<>>
  /\ UNCHANGED <<saves, last_saved>>
  /\ UNCHANGED <<tess, ui, tool_btns, indep, rotation>>
  /\ UNCHANGED session

(* ------------------------------ import --------------------------------- *)
Session == [shape |-> current_shape, mesh |-> current_mesh,
            mactor |-> mesh_actor, eactor |-> edge_actor,
            loose |-> loose_edges, clips |-> clip_actors,
            progress |-> progress_bar]

\* plotter.clear() on session record s: every actor leaves the scene
Clear(s) ==
  [s EXCEPT !.mactor = Cleared(s.mactor), !.eactor = Cleared(s.eactor),
            !.loose = FALSE, !.clips = 0]

\* s with its mesh replaced by m; the actors s refers to stay as they are
Replaced(s, m) ==
  [s EXCEPT !.mesh = m, !.mactor = Stale(s.mactor), !.eactor = Stale(s.eactor)]

\* load_current_shape with params.get(self.current_precision, (0.02, 0.1)):
\* a text that is not a key is tessellated with the pair of High
load_current_shape_default_high(s, precision, fail) ==
  IF s.shape = NoShape THEN s
  ELSE IF fail = "tess" THEN [s EXCEPT !.progress = 0]
  ELSE
    LET p == params(IF precision \in Levels THEN precision ELSE "High")
        k == BRepMesh_IncrementalMesh(s.shape, p[1], p[2])
        m == ShapeToPyvistaMesh(s.shape, p[1], p[2])
        t == [Replaced(s, m) EXCEPT !.shape = k]
    IN [Clear(t) EXCEPT !.mactor = AddMesh(current_opacity),
                        !.eactor = AddEdges(TRUE), !.progress = 90]

\* load_current_shape on session record s with self.current_precision =
\* precision; fail names the call that raises
load_current_shape(s, precision, fail) ==
  IF s.shape = NoShape THEN s
  ELSE IF fail = "tess" THEN [s EXCEPT !.progress = 0]
  ELSE
    LET p == params(precision)
        k == BRepMesh_IncrementalMesh(s.shape, p[1], p[2])
        m == ShapeToPyvistaMesh(s.shape, p[1], p[2])
        t == [Replaced(s, m) EXCEPT !.shape = k]
    IN CASE fail = "clear" -> [t EXCEPT !.progress = 0]
         [] fail = "add_mesh" ->
              [Clear(t) EXCEPT !.progress = 0]
         [] fail = "edges" ->
              [Clear(t) EXCEPT !.mactor = AddMesh(current_opacity),
                               !.progress = 0]
         [] OTHER ->
              [Clear(t) EXCEPT !.mactor = AddMesh(current_opacity),
                               !.eactor = AddEdges(TRUE), !.progress = 90]

LoadCurrentShapeFails == {"none", "tess", "clear", "add_mesh", "edges"}

\* load_step_ocp; "read": ReadFile status is not IFSelect_RetDone,
\* "transfer": TransferRoots or Shape raises
load_step_ocp(s, n, fail) ==
  IF fail \in {"read", "transfer"} THEN s
  ELSE load_current_shape([s EXCEPT !.shape = ReadShape(n)],
                          current_precision, fail)

LoadStepOcpFails == {"read", "transfer"} \cup LoadCurrentShapeFails

\* load_mesh_file; without a PyVista engine the name pv is undefined and
\* pv.read raises
load_mesh_file(s, n, fail) ==
  IF ~plotter \/ fail = "read" THEN s
  ELSE
    LET t == [Replaced(s, ReadMesh(n, "read")) EXCEPT !.shape = NoShape]
    IN CASE fail = "clear" -> t
         [] fail = "add_mesh" ->
              Clear(t)
         [] fail = "edges" ->
              [Clear(t) EXCEPT !.mactor = AddMesh(current_opacity),
                               !.eactor = NoEdges]
         [] OTHER ->
              [Clear(t) EXCEPT !.mactor = AddMesh(current_opacity),
                               !.eactor = AddEdges(show_mesh_edges)]

LoadMeshFileFails == {"none", "read", "clear", "add_mesh", "edges"}

\* load_step_mesh (gmsh); the edge actor it adds is not stored
load_step_mesh(s, n, fail) ==
  IF fail = "read" THEN s
  ELSE
    LET t == Replaced(s, ReadMesh(n, "gmsh"))
    IN CASE fail = "clear" -> t
         [] fail = "add_mesh" ->
              Clear(t)
         [] fail = "edges" ->
              [Clear(t) EXCEPT !.mactor = AddMesh(DefaultOpacity)]
         [] OTHER ->
              [Clear(t) EXCEPT !.mactor = AddMesh(DefaultOpacity),
                               !.loose = TRUE]

LoadStepMeshFails == {"none", "read", "clear", "add_mesh", "edges"}

IsStep(path) == path[1] \in {".step", ".stp"}

ImportFails(path) ==
  IF IsStep(path)
  THEN CASE engine = "B-Rep (OCP)" -> LoadStepOcpFails
         [] engine = "Mesh (Preview)" -> LoadStepMeshFails
         [] OTHER -> {"none", "read"}
  ELSE IF plotter THEN LoadMeshFileFails ELSE {"read"}

\* the dispatch of load_step on extension and ENGINE_TYPE
Import(s, path, fail) ==
  IF IsStep(path)
  THEN CASE engine = "B-Rep (OCP)" -> load_step_ocp(s, path[2], fail)
         [] engine = "Mesh (Preview)" -> load_step_mesh(s, path[2], fail)
         [] OTHER -> s
  ELSE load_mesh_file(s, path[2], fail)

\* the NameError raised by the handler of load_step_ocp (traceback is not
\* imported) leaves load_step before its last two statements
Escapes(path, fail) ==
  IsStep(path) /\ engine = "B-Rep (OCP)" /\ fail = "transfer"

load_step(path, fail) ==
  /\ timers < MaxTimers
  /\ LET r == Import([Session EXCEPT !.progress = 10], path, fail)
     IN /\ current_shape' = r.shape
        /\ current_mesh' = r.mesh
        /\ mesh_actor' = r.mactor
        /\ edge_actor' = r.eactor
        /\ loose_edges' = r.loose
        /\ clip_actors' = r.clips
        /\ IF Escapes(path, fail)
           THEN progress_bar' = r.progress /\ timers' = timers
           ELSE progress_bar' = 100 /\ timers' = timers + 1
  /\ UNCHANGED <<tess, ui, widgets, op_report, simplify_report, export_result, section_log, measure_widgets, picking,
                 engine, current_opacity, current_precision,
                 show_mesh_edges, is_sectioning, is_measuring, plane_widget,
                 last_mode>>

\* QTimer.singleShot(1000, lambda: self.progress_bar.setValue(0))
timer_fires ==
  /\ timers > 0
  /\ progress_bar' = 0
  /\ timers' = timers - 1
  /\ UNCHANGED <<tess, ui, widgets, op_report, simplify_report, export_result, section_log, measure_widgets, picking,
                 engine, loose_edges, clip_actors,
                 current_shape, current_mesh, mesh_actor, edge_actor,
                 current_opacity, current_precision, show_mesh_edges,
                 is_sectioning, is_measuring, plane_widget, last_mode>>

\* on_precision_changed with self.progress_bar.setValue(30) moved in front of
\* the test of self.current_shape
on_precision_changed_early_progress(text, fail) ==
  /\ current_precision' = text
  /\ LET r == IF current_shape # NoShape
              THEN load_current_shape(Session, text, fail)
              ELSE [Session EXCEPT !.progress = 30]
     IN /\ current_shape' = r.shape
        /\ current_mesh' = r.mesh
        /\ mesh_actor' = r.mactor
        /\ edge_actor' = r.eactor
        /\ loose_edges' = r.loose
        /\ clip_actors' = r.clips
        /\ progress_bar' = r.progress
  /\ UNCHANGED <<tess, ui, widgets, op_report, simplify_report, export_result, section_log, measure_widgets, picking,
                 engine, current_opacity, show_mesh_edges, is_sectioning,
                 is_measuring, plane_widget, timers, last_mode>>

on_precision_changed(text, fail) ==
  /\ current_precision' = text
  /\ LET r == IF current_shape # NoShape
              THEN load_current_shape(Session, text, fail)
              ELSE Session
     IN /\ current_shape' = r.shape
        /\ current_mesh' = r.mesh
        /\ mesh_actor' = r.mactor
        /\ edge_actor' = r.eactor
        /\ loose_edges' = r.loose
        /\ clip_actors' = r.clips
        /\ progress_bar' = r.progress
  /\ UNCHANGED <<tess, ui, widgets, op_report, simplify_report, export_result, section_log, measure_widgets, picking,
                 engine, current_opacity, show_mesh_edges, is_sectioning,
                 is_measuring, plane_widget, timers, last_mode>>

(* --------------------------- geometry ops ------------------------------ *)
\* mesh.decimate(target) / mesh.subdivide(1, subfilter='loop')
Edited(mesh) == [mesh EXCEPT !.edits = mesh.edits + 1]

\* the message box simplify_mesh ends with: "no_model" is the warning that
\* there is no model to simplify, "cancelled" the dismissed input dialog
SimplifyReport(mesh, ok, fail) ==
  IF mesh = NoMesh THEN "no_model"
  ELSE IF ~ok THEN "cancelled"
  ELSE IF fail # "none" THEN "failed"
  ELSE "done"

\* simplify_mesh that rebuilds the mesh from scratch and drops the Shape
simplify_mesh_drops_shape(ok, fail) ==
  /\ current_mesh.edits < MaxEdits
  /\ LET s == Session
         t == Replaced(s, Edited(s.mesh))
         r == IF s.mesh = NoMesh \/ ~ok \/ fail = "decimate" THEN s
              ELSE CASE fail = "clear" -> t
                     [] fail = "add_mesh" ->
                          Clear(t)
                     [] fail = "edges" ->
                          [Clear(t) EXCEPT !.mactor = AddMesh(DefaultOpacity)]
                     [] OTHER ->
                          [Clear(t) EXCEPT !.mactor = AddMesh(DefaultOpacity),
                                           !.eactor = AddEdges(TRUE)]
     IN /\ current_mesh' = r.mesh
        /\ mesh_actor' = r.mactor
        /\ edge_actor' = r.eactor
        /\ loose_edges' = r.loose
        /\ clip_actors' = r.clips
        /\ current_shape' = IF r.mesh # s.mesh THEN NoShape ELSE current_shape
        /\ simplify_report' = SimplifyReport(s.mesh, ok, fail)
  /\ UNCHANGED <<tess, ui, widgets, op_report, export_result, section_log, measure_widgets, picking,
                 engine, current_opacity, current_precision,
                 show_mesh_edges, is_sectioning, is_measuring, plane_widget,
                 progress_bar, timers, last_mode>>

\* simplify_mesh; ok is the answer of the QInputDialog
simplify_mesh(ok, fail) ==
  /\ current_mesh.edits < MaxEdits
  /\ LET s == Session
         t == Replaced(s, Edited(s.mesh))
         r == IF s.mesh = NoMesh \/ ~ok \/ fail = "decimate" THEN s
              ELSE CASE fail = "clear" -> t
                     [] fail = "add_mesh" ->
                          Clear(t)
                     [] fail = "edges" ->
                          [Clear(t) EXCEPT !.mactor = AddMesh(DefaultOpacity)]
                     [] OTHER ->
                          [Clear(t) EXCEPT !.mactor = AddMesh(DefaultOpacity),
                                           !.eactor = AddEdges(TRUE)]
     IN /\ current_mesh' = r.mesh
        /\ mesh_actor' = r.mactor
        /\ edge_actor' = r.eactor
        /\ loose_edges' = r.loose
        /\ clip_actors' = r.clips
        /\ simplify_report' = SimplifyReport(s.mesh, ok, fail)
  /\ UNCHANGED <<tess, ui, widgets, op_report, export_result, section_log, measure_widgets, picking,
                 engine, current_shape, current_opacity, current_precision,
                 show_mesh_edges, is_sectioning, is_measuring, plane_widget,
                 progress_bar, timers, last_mode>>

SimplifyFails == {"none", "decimate", "clear", "add_mesh", "edges"}

\* subdivide_mesh: no edge actor is created for the new mesh; without a
\* mesh it returns at once and reports nothing
subdivide_mesh(fail) ==
  /\ current_mesh.edits < MaxEdits
  /\ LET s == Session
         t == Replaced(s, Edited(s.mesh))
         r == IF s.mesh = NoMesh \/ fail = "subdivide" THEN s
              ELSE CASE fail = "clear" -> t
                     [] fail = "add_mesh" ->
                          Clear(t)
                     [] OTHER ->
                          [Clear(t) EXCEPT !.mactor = AddMesh(DefaultOpacity)]
     IN /\ current_mesh' = r.mesh
        /\ mesh_actor' = r.mactor
        /\ edge_actor' = r.eactor
        /\ loose_edges' = r.loose
        /\ clip_actors' = r.clips
        /\ op_report' = IF s.mesh = NoMesh THEN "silent"
                        ELSE IF fail # "none" THEN "error" ELSE "done"
  /\ UNCHANGED <<tess, ui, widgets, simplify_report, export_result, section_log,
                 measure_widgets, picking,
                 engine, current_shape, current_opacity, current_precision,
                 show_mesh_edges, is_sectioning, is_measuring, plane_widget,
                 progress_bar, timers, last_mode>>

SubdivideFails == {"none", "subdivide", "clear", "add_mesh"}

\* delete_object
delete_object(fail) ==
  /\ IF plotter /\ fail = "none"
     THEN /\ current_shape' = NoShape
          /\ current_mesh' = NoMesh
          /\ mesh_actor' = NoActor
          /\ edge_actor' = NoEdges
          /\ loose_edges' = FALSE
          /\ clip_actors' = 0
          /\ is_measuring' = FALSE
          /\ is_sectioning' = FALSE
     ELSE UNCHANGED <<current_shape, current_mesh, mesh_actor, edge_actor,
                      loose_edges, clip_actors, is_measuring, is_sectioning>>
  /\ UNCHANGED <<tess, ui, widgets, op_report, simplify_report, export_result, section_log, measure_widgets, picking,
                 engine, current_opacity, current_precision, show_mesh_edges,
                 plane_widget, progress_bar, timers, last_mode>>

\* reset_settings, answered Yes: plotter.clear() and nothing else of the session
reset_settings ==
  /\ IF plotter
     THEN /\ mesh_actor' = Cleared(mesh_actor)
          /\ edge_actor' = Cleared(edge_actor)
          /\ loose_edges' = FALSE
          /\ clip_actors' = 0
     ELSE UNCHANGED <<mesh_actor, edge_actor, loose_edges, clip_actors>>
  /\ UNCHANGED <<tess, ui, widgets, op_report, simplify_report, export_result, section_log, measure_widgets, picking,
                 engine, current_shape, current_mesh, current_opacity,
                 current_precision, show_mesh_edges, is_sectioning,
                 is_measuring, plane_widget, progress_bar, timers, last_mode>>

(* ------------------------- material settings --------------------------- *)
on_opacity_changed(value) ==
  /\ current_opacity' = value
  /\ mesh_actor' = IF ~mesh_actor.none
                   THEN [mesh_actor EXCEPT !.opacity = value]
                   ELSE mesh_actor
  /\ UNCHANGED <<tess, ui, widgets, op_report, simplify_report, export_result, section_log, measure_widgets, picking,
                 engine, loose_edges, clip_actors,
                 current_shape, current_mesh, edge_actor,
                 current_precision, show_mesh_edges, is_sectioning,
                 is_measuring, plane_widget, progress_bar, timers, last_mode>>

toggle_edges(checked, fail) ==
  /\ show_mesh_edges' = checked
  /\ edge_actor' =
       IF ~edge_actor.none
       THEN [edge_actor EXCEPT !.visible = checked]
       ELSE IF current_mesh # NoMesh /\ checked /\ fail = "none"
            THEN AddEdges(TRUE)
            ELSE edge_actor
  /\ UNCHANGED <<tess, ui, widgets, op_report, simplify_report, export_result, section_log, measure_widgets, picking,
                 engine, loose_edges, clip_actors,
                 current_shape, current_mesh, mesh_actor,
                 current_opacity, current_precision, is_sectioning,
                 is_measuring, plane_widget, progress_bar, timers, last_mode>>

(* ------------------------------- tools --------------------------------- *)
Tool == [mactor |-> mesh_actor, sectioning |-> is_sectioning,
         widget |-> plane_widget, clips |-> clip_actors, log |-> section_log]

\* if self.mesh_actor: self.mesh_actor.SetVisibility(v)
SetVisibility(actor, v) ==
  IF ~actor.none THEN [actor EXCEPT !.visible = v] ELSE actor

\* toggle_section whose activation branch does not test self.current_mesh
ToggleSection_no_mesh_test(t, fail) ==
  IF ~plotter THEN [t EXCEPT !.log = "silent"]
  ELSE IF t.sectioning
  THEN IF fail = "raise" THEN [t EXCEPT !.log = "close_failed"]
       ELSE [t EXCEPT !.widget = "none",
                      !.mactor = SetVisibility(t.mactor, TRUE),
                      !.sectioning = FALSE,
                      !.log = "closed"]
  ELSE IF fail = "raise"
       THEN [t EXCEPT !.mactor = SetVisibility(t.mactor, TRUE),
                      !.log = "open_failed"]
       ELSE [t EXCEPT !.mactor = SetVisibility(t.mactor, FALSE),
                      !.widget = "z",
                      !.clips = t.clips + 1,
                      !.sectioning = TRUE,
                      !.log = "opened"]

\* toggle_section on tool record t; fail = "raise": the plotter call of the
\* branch taken raises.  add_mesh_clip_plane adds a plane widget and an actor
\* of the clipped mesh; clear_plane_widgets removes the widgets only.  Every mesh of the model is a pv.PolyData, so the
\* isinstance test passes.  log is the message of logger.info / warning /
\* error; the return without a plotter logs nothing.
ToggleSection(t, fail) ==
  IF ~plotter THEN [t EXCEPT !.log = "silent"]
  ELSE IF t.sectioning
  THEN IF fail = "raise" THEN [t EXCEPT !.log = "close_failed"]
       ELSE [t EXCEPT !.widget = "none",
                      !.mactor = SetVisibility(t.mactor, TRUE),
                      !.sectioning = FALSE,
                      !.log = "closed"]
  ELSE IF current_mesh = NoMesh THEN [t EXCEPT !.log = "no_model"]
  ELSE IF fail = "raise"
       THEN [t EXCEPT !.mactor = SetVisibility(t.mactor, TRUE),
                      !.log = "open_failed"]
       ELSE [t EXCEPT !.mactor = SetVisibility(t.mactor, FALSE),
                      !.widget = "z",
                      !.clips = t.clips + 1,
                      !.sectioning = TRUE,
                      !.log = "opened"]

Raises == {"none", "raise"}

toggle_section(fail) ==
  /\ LET r == ToggleSection(Tool, fail)
     IN /\ mesh_actor' = r.mactor
        /\ is_sectioning' = r.sectioning
        /\ plane_widget' = r.widget
        /\ clip_actors' = r.clips
        /\ r.clips <= MaxClips
        /\ section_log' = r.log
  /\ UNCHANGED <<tess, ui, widgets, op_report, simplify_report, export_result, measure_widgets, picking,
                 engine, loose_edges,
                 current_shape, current_mesh, edge_actor,
                 current_opacity, current_precision, show_mesh_edges,
                 is_measuring, progress_bar, timers, last_mode>>

reset_section_plane(f1, f2) ==
  /\ LET r == IF plotter /\ is_sectioning
              THEN [ToggleSection(ToggleSection(Tool, f1), f2)
                      EXCEPT !.log = "reset"]
              ELSE [Tool EXCEPT !.log = "silent"]
     IN /\ mesh_actor' = r.mactor
        /\ is_sectioning' = r.sectioning
        /\ plane_widget' = r.widget
        /\ clip_actors' = r.clips
        /\ r.clips <= MaxClips
        /\ section_log' = r.log
  /\ UNCHANGED <<tess, ui, widgets, op_report, simplify_report, export_result, measure_widgets, picking,
                 engine, loose_edges,
                 current_shape, current_mesh, edge_actor,
                 current_opacity, current_precision, show_mesh_edges,
                 is_measuring, progress_bar, timers, last_mode>>

set_section_axis(axis, f1, f2) ==
  /\ LET t == IF ~is_sectioning THEN ToggleSection(Tool, f1)
              ELSE [Tool EXCEPT !.log = "silent"]
         r == IF plotter /\ current_mesh # NoMesh
              THEN IF f2 = "raise"
                   THEN [t EXCEPT !.widget = "none",
                                  !.mactor = SetVisibility(t.mactor, FALSE),
                                  !.log = "axis_failed"]
                   ELSE [t EXCEPT !.widget = axis,
                                  !.clips = t.clips + 1,
                                  !.mactor = SetVisibility(t.mactor, FALSE),
                                  !.sectioning = TRUE,
                                  !.log = "axis"]
              ELSE t
     IN /\ mesh_actor' = r.mactor
        /\ is_sectioning' = r.sectioning
        /\ plane_widget' = r.widget
        /\ clip_actors' = r.clips
        /\ r.clips <= MaxClips
        /\ section_log' = r.log
  /\ UNCHANGED <<tess, ui, widgets, op_report, simplify_report, export_result, measure_widgets, picking,
                 engine, loose_edges,
                 current_shape, current_mesh, edge_actor,
                 current_opacity, current_precision, show_mesh_edges,
                 is_measuring, progress_bar, timers, last_mode>>

\* toggle_measure; fail names the plotter call that raises:
\* clear_measure_widgets ("clear") or add_measurement_widget ("add")
MeasureFails == {"none", "clear", "add"}

\* toggle_measure whose Off branch leaves the widgets on the plotter
toggle_measure_keeps_widgets(fail) ==
  /\ IF ~plotter \/ fail = "clear"
     THEN UNCHANGED <<is_measuring, measure_widgets>>
     ELSE IF is_measuring
     THEN is_measuring' = FALSE /\ UNCHANGED measure_widgets
     ELSE IF fail = "add"
     THEN is_measuring' = FALSE /\ measure_widgets' = 0
     ELSE is_measuring' = TRUE /\ measure_widgets' = 1
  /\ UNCHANGED <<tess, ui, widgets, op_report, simplify_report, export_result, section_log, picking,
                 engine, loose_edges, clip_actors,
                 current_shape, current_mesh, mesh_actor, edge_actor,
                 current_opacity, current_precision, show_mesh_edges,
                 is_sectioning, plane_widget, progress_bar, timers, last_mode>>

toggle_measure(fail) ==
  /\ IF ~plotter \/ fail = "clear"
     THEN UNCHANGED <<is_measuring, measure_widgets>>
     ELSE IF is_measuring
     THEN is_measuring' = FALSE /\ measure_widgets' = 0
     ELSE IF fail = "add"
     THEN is_measuring' = FALSE /\ measure_widgets' = 0
     ELSE is_measuring' = TRUE /\ measure_widgets' = 1
  /\ UNCHANGED <<tess, ui, widgets, op_report, simplify_report, export_result, section_log, picking,
                 engine, loose_edges, clip_actors,
                 current_shape, current_mesh, mesh_actor, edge_actor,
                 current_opacity, current_precision, show_mesh_edges,
                 is_sectioning, plane_widget, progress_bar, timers, last_mode>>

\* a click on the checkable section button (or its shortcut X): Qt toggles
\* the checked state of the button, then clicked calls toggle_section
click_section_btn(fail) ==
  /\ section_btn' = ~section_btn
  /\ LET r == ToggleSection(Tool, fail)
     IN /\ mesh_actor' = r.mactor
        /\ is_sectioning' = r.sectioning
        /\ plane_widget' = r.widget
        /\ clip_actors' = r.clips
        /\ r.clips <= MaxClips
        /\ section_log' = r.log
  /\ UNCHANGED <<tess, ui, measure_btn, recent, indep, rotation, op_report, simplify_report,
                 export_result, measure_widgets, picking,
                 engine, loose_edges,
                 current_shape, current_mesh, edge_actor,
                 current_opacity, current_precision, show_mesh_edges,
                 is_measuring, progress_bar, timers, last_mode>>

\* a click on the checkable measurement button (or its shortcut M): Qt
\* toggles the checked state of the button, then clicked calls toggle_measure
click_measure_btn(fail) ==
  /\ measure_btn' = ~measure_btn
  /\ IF ~plotter \/ fail = "clear"
     THEN UNCHANGED <<is_measuring, measure_widgets>>
     ELSE IF is_measuring
     THEN is_measuring' = FALSE /\ measure_widgets' = 0
     ELSE IF fail = "add"
     THEN is_measuring' = FALSE /\ measure_widgets' = 0
     ELSE is_measuring' = TRUE /\ measure_widgets' = 1
  /\ UNCHANGED <<tess, ui, section_btn, recent, indep, rotation, op_report, simplify_report,
                 export_result, section_log, picking,
                 engine, loose_edges, clip_actors,
                 current_shape, current_mesh, mesh_actor, edge_actor,
                 current_opacity, current_precision, show_mesh_edges,
                 is_sectioning, plane_widget, progress_bar, timers, last_mode>>

\* enable_point_picking(checked); without a plotter the attribute access on
\* None raises out of the slot
enable_point_picking(checked) ==
  /\ picking' = IF plotter THEN checked ELSE picking
  /\ UNCHANGED <<tess, ui, widgets, op_report, simplify_report, export_result, section_log, measure_widgets,
                 engine, loose_edges, clip_actors,
                 current_shape, current_mesh, mesh_actor, edge_actor,
                 current_opacity, current_precision, show_mesh_edges,
                 is_sectioning, is_measuring, plane_widget, progress_bar,
                 timers, last_mode>>

(* --------------------------- analysis tools ---------------------------- *)
\* What the analysis tools do to the session: they write a named array onto
\* the current mesh and end with a report.  "no_model": the warning box asking
\* to load a model first; "silent": return without message; "error": the
\* handler of the tool logs the exception; "escaped": the exception leaves
\* the slot; "done".  fail = "raise": a PyVista call of the tool raises (the
\* decorations the tools add to the scene, scalar bar, glyphs and clip box,
\* are not part of the session state).
WithArray(mesh, name) == [mesh EXCEPT !.scalars = mesh.scalars \cup {name}]

\* the tools that write an array; guarded: the body runs inside try / except,
\* warns: the tool shows the warning box when there is no mesh
Analysis(name, guarded, warns, fail) ==
  /\ IF current_mesh = NoMesh
     THEN /\ op_report' = IF warns THEN "no_model" ELSE "silent"
          /\ UNCHANGED current_mesh
     ELSE /\ current_mesh' = WithArray(current_mesh, name)
          /\ op_report' = IF fail = "none" THEN "done"
                          ELSE IF guarded THEN "error" ELSE "escaped"
  /\ UNCHANGED <<tess, ui, widgets, simplify_report, export_result, section_log,
                 measure_widgets, picking, engine, loose_edges, clip_actors, current_shape,
                 mesh_actor, edge_actor, current_opacity, current_precision,
                 show_mesh_edges, is_sectioning, is_measuring, plane_widget,
                 progress_bar, timers, last_mode>>

plot_curvature(fail) == Analysis("curvature", FALSE, TRUE, fail)

plot_elevation(fail) == Analysis("elevation", FALSE, TRUE, fail)

\* compute_quality: compute_cell_quality raising leaves the mesh as it was
compute_quality(fail) ==
  IF fail = "quality" /\ current_mesh # NoMesh
  THEN /\ op_report' = "error"
       /\ UNCHANGED <<tess, ui, widgets, simplify_report, export_result, section_log,
                      measure_widgets, picking, engine, loose_edges, clip_actors,
                      current_shape, current_mesh, mesh_actor, edge_actor,
                      current_opacity, current_precision, show_mesh_edges,
                      is_sectioning, is_measuring, plane_widget,
                      progress_bar, timers, last_mode>>
  ELSE Analysis("quality", TRUE, FALSE, fail)

\* the tools that only read the mesh: show_normals, clip_box (try / except,
\* silent without a mesh) and calculate_properties (warning box without one)
Query(warns, fail) ==
  /\ op_report' = IF current_mesh = NoMesh
                  THEN IF warns THEN "no_model" ELSE "silent"
                  ELSE IF fail = "none" THEN "done" ELSE "error"
  /\ UNCHANGED <<tess, ui, widgets, simplify_report, export_result, section_log,
                 measure_widgets, picking, engine, loose_edges, clip_actors, current_shape,
                 current_mesh, mesh_actor, edge_actor, current_opacity,
                 current_precision, show_mesh_edges, is_sectioning,
                 is_measuring, plane_widget, progress_bar, timers, last_mode>>

show_normals(fail) == Query(FALSE, fail)

clip_box(fail) == Query(FALSE, fail)

calculate_properties(fail) == Query(TRUE, fail)

(* ------------------------------ toolbars ------------------------------- *)
\* update_responsive_layout that inserts the breaks of the new width without
\* removing the old ones
UpdateLayout_keeps_breaks(b, w) ==
  IF w < 480 THEN b \cup {"tb_view", "tb_tools"}
  ELSE IF w < 800 THEN b \cup {"tb_render"}
  ELSE b

\* update_responsive_layout on the break set b at width w: the four
\* removeToolBarBreak calls, then the insertToolBarBreak calls of the branch
UpdateLayout(b, w) ==
  LET cleared == b \ {"tb_file", "tb_view", "tb_render", "tb_tools"}
  IN IF w < 480 THEN cleared \cup {"tb_view", "tb_tools"}
     ELSE IF w < 800 THEN cleared \cup {"tb_render"}
     ELSE cleared

\* the toolbars exist from the construction on, so the hasattr test passes
update_responsive_layout ==
  /\ breaks' = UpdateLayout(breaks, width)
  /\ UNCHANGED <<btn_checked, settings, load_result, width, toolbars,
                 removed_toolbars>>
  /\ UNCHANGED session
  /\ UNCHANGED widgets
  /\ UNCHANGED tess

\* self.resize(w, h); a visible window receives the resize event at once
\* and resizeEvent calls update_responsive_layout, a hidden one receives it
\* when it is shown
resize(w, visible) ==
  /\ width' = w
  /\ breaks' = IF visible THEN UpdateLayout(breaks, w) ELSE breaks
  /\ UNCHANGED <<btn_checked, settings, load_result, toolbars,
                 removed_toolbars>>
  /\ UNCHANGED session
  /\ UNCHANGED widgets
  /\ UNCHANGED tess

\* setup_top_toolbar that creates the four toolbars without removing the
\* old ones
setup_top_toolbar_keeps_old ==
  /\ removed_toolbars < MaxSetups * 4
  /\ toolbars' = [n \in ToolbarNames |->
                    [inWindow |-> toolbars[n].inWindow + 1,
                     entries |-> Entries(n)]]
  /\ removed_toolbars' = removed_toolbars + 4
  /\ btn_checked' = [b \in ButtonSet |-> FALSE]
  /\ breaks' = UpdateLayout({}, width)
  /\ section_btn' = FALSE
  /\ measure_btn' = FALSE
  /\ tb_visible' = [n \in AllToolbars |->
                      IF n \in ToolbarNames THEN TRUE ELSE tb_visible[n]]
  /\ tb_was' = [n \in AllToolbars |->
                  IF n \in ToolbarNames THEN FALSE ELSE tb_was[n]]
  /\ UNCHANGED <<settings, load_result, width, recent, rotation,
                 is_independent_mode,
                 log_visible, log_was, menubar_visible, float_visible,
                 progress_visible, window_opacity, entered_from>>
  /\ UNCHANGED session
  /\ UNCHANGED tess

\* setup_top_toolbar called on a window that has its toolbars: each old
\* toolbar leaves the window (and takes its break along), four new ones with
\* new, unchecked buttons are added, update_responsive_layout runs
setup_top_toolbar ==
  /\ removed_toolbars < MaxSetups * 4
  /\ toolbars' = [n \in ToolbarNames |->
                    LET left == toolbars[n].inWindow - 1
                    IN [inWindow |-> left + 1, entries |-> Entries(n)]]
  /\ removed_toolbars' = removed_toolbars + 4
  /\ btn_checked' = [b \in ButtonSet |-> FALSE]
  /\ breaks' = UpdateLayout({}, width)
  /\ section_btn' = FALSE
  /\ measure_btn' = FALSE
  /\ tb_visible' = [n \in AllToolbars |->
                      IF n \in ToolbarNames THEN TRUE ELSE tb_visible[n]]
  /\ tb_was' = [n \in AllToolbars |->
                  IF n \in ToolbarNames THEN FALSE ELSE tb_was[n]]
  /\ UNCHANGED <<settings, load_result, width, recent, rotation,
                 is_independent_mode,
                 log_visible, log_was, menubar_visible, float_visible,
                 progress_visible, window_opacity, entered_from>>
  /\ UNCHANGED session
  /\ UNCHANGED tess

(* -------------------------- independent mode --------------------------- *)
\* the entry of the View menu that shows or hides the toolbar tb
\* (update_toolbar_menu: t.setVisible(checked)); the menus are reached
\* through the menu bar
toolbar_setVisible(tb, checked) ==
  /\ menubar_visible
  /\ tb_visible' = [tb_visible EXCEPT ![tb] = checked]
  /\ UNCHANGED <<is_independent_mode, tb_was, log_visible, log_was,
                 menubar_visible, float_visible, progress_visible,
                 window_opacity, entered_from>>
  /\ UNCHANGED <<tess, ui, tool_btns, recent, rotation>>
  /\ UNCHANGED session

\* toggle_log_view(checked), the checkable entry of the View menu
toggle_log_view(checked) ==
  /\ menubar_visible
  /\ log_visible' = checked
  /\ UNCHANGED <<is_independent_mode, tb_visible, tb_was, log_was,
                 menubar_visible, float_visible, progress_visible,
                 window_opacity, entered_from>>
  /\ UNCHANGED <<tess, ui, tool_btns, recent, rotation>>
  /\ UNCHANGED session

enter_independent_mode ==
  /\ IF is_independent_mode
     THEN UNCHANGED indep
     ELSE /\ menubar_visible' = FALSE
          /\ tb_was' = tb_visible
          /\ tb_visible' = [n \in AllToolbars |-> FALSE]
          /\ log_was' = log_visible
          /\ log_visible' = FALSE
          /\ progress_visible' = FALSE
          /\ window_opacity' = IndependentOpacity
          /\ float_visible' = TRUE
          /\ is_independent_mode' = TRUE
          /\ entered_from' = [tb |-> tb_visible, log |-> log_visible]
  /\ UNCHANGED <<tess, ui, tool_btns, recent, rotation>>
  /\ UNCHANGED session

\* exit_independent_mode that shows every toolbar and the log area
exit_independent_mode_shows_all ==
  /\ IF ~is_independent_mode
     THEN UNCHANGED indep
     ELSE /\ window_opacity' = 100
          /\ menubar_visible' = TRUE
          /\ tb_visible' = [n \in AllToolbars |-> TRUE]
          /\ log_visible' = TRUE
          /\ progress_visible' = TRUE
          /\ float_visible' = FALSE
          /\ is_independent_mode' = FALSE
          /\ UNCHANGED <<tb_was, log_was, entered_from>>
  /\ UNCHANGED <<tess, ui, tool_btns, recent, rotation>>
  /\ UNCHANGED session

\* exit_independent_mode, also what keyPressEvent calls on Escape
exit_independent_mode ==
  /\ IF ~is_independent_mode
     THEN UNCHANGED indep
     ELSE /\ window_opacity' = 100
          /\ menubar_visible' = TRUE
          /\ tb_visible' = [n \in AllToolbars |->
                              IF tb_was[n] THEN TRUE ELSE tb_visible[n]]
          /\ log_visible' = IF log_was THEN TRUE ELSE log_visible
          /\ progress_visible' = TRUE
          /\ float_visible' = FALSE
          /\ is_independent_mode' = FALSE
          /\ UNCHANGED <<tb_was, log_was, entered_from>>
  /\ UNCHANGED <<tess, ui, tool_btns, recent, rotation>>
  /\ UNCHANGED session

(* ------------------------------ rotation ------------------------------- *)
\* toggle_rotation(checked) on the rotation state r
ToggleRotation(r, checked) ==
  [r EXCEPT !.rotating = checked, !.float = checked, !.timer = checked]

Rotation == [rotating |-> is_rotating, timer |-> rotation_timer,
             btn |-> rotate_btn, float |-> float_rotate_btn]

\* the rotation state r becomes the state of the window
SetRotation(r) ==
  /\ is_rotating' = r.rotating
  /\ rotation_timer' = r.timer
  /\ rotate_btn' = r.btn
  /\ float_rotate_btn' = r.float

\* a click on the checkable rotation button of the toolbar below the view:
\* Qt toggles the button, clicked(checked) calls toggle_rotation
click_rotate_btn ==
  /\ tb_visible["view_bottom_toolbar"]
  /\ SetRotation(ToggleRotation([Rotation EXCEPT !.btn = ~rotate_btn],
                                ~rotate_btn))
  /\ UNCHANGED <<tess, ui, tool_btns, recent, indep, screenshot_result>>
  /\ UNCHANGED session

\* a click on the floating rotation button: Qt toggles the button,
\* clicked(checked) calls toggle_rotation_from_float
click_float_rotate_btn ==
  /\ float_visible
  /\ SetRotation(ToggleRotation([Rotation EXCEPT !.float = ~float_rotate_btn,
                                                 !.btn = ~float_rotate_btn],
                                ~float_rotate_btn))
  /\ UNCHANGED <<tess, ui, tool_btns, recent, indep, screenshot_result>>
  /\ UNCHANGED session

\* path: the save dialog returned a file name; fail: plotter.screenshot raises
ScreenshotResult(path, fail) ==
  IF ~plotter THEN "no_plotter"
  ELSE IF ~path THEN "cancelled"
  ELSE IF fail THEN "failed" ELSE "saved"

\* take_screenshot that leaves the rotation timer stopped
take_screenshot_no_restart(path, fail) ==
  /\ screenshot_result' = ScreenshotResult(path, fail)
  /\ rotation_timer' = IF plotter /\ is_rotating THEN FALSE ELSE rotation_timer
  /\ UNCHANGED <<is_rotating, rotate_btn, float_rotate_btn>>
  /\ UNCHANGED <<tess, ui, tool_btns, recent, indep>>
  /\ UNCHANGED session

\* take_screenshot: the timer is stopped while the dialog is open and the
\* picture is taken, and started again at the end
take_screenshot(path, fail) ==
  /\ screenshot_result' = ScreenshotResult(path, fail)
  /\ LET was_rotating == is_rotating
         stopped == IF was_rotating THEN FALSE ELSE rotation_timer
     IN rotation_timer' = IF ~plotter THEN rotation_timer
                          ELSE IF was_rotating THEN TRUE ELSE stopped
  /\ UNCHANGED <<is_rotating, rotate_btn, float_rotate_btn>>
  /\ UNCHANGED <<tess, ui, tool_btns, recent, indep>>
  /\ UNCHANGED session

(* ------------------------------ settings ------------------------------- *)
\* settings.value(key, default, type=bool) on store st
Value(st, btn) == IF st.saved THEN st.value[btn] ELSE Default(btn)

\* the call load_settings makes after setChecked raises: toggle_axes and
\* toggle_bounds are defined without a parameter (TypeError), toggle_shadows
\* and toggle_floor use self.plotter without a test
RestoreRaises(st, btn) ==
  CASE btn = "axes_btn" -> ~Value(st, btn)
    [] btn = "bounds_btn" -> Value(st, btn)
    [] btn \in {"light_btn", "floor_btn"} -> Value(st, btn) /\ ~plotter
    [] OTHER -> FALSE

\* index of the first button whose restore raises, Len(Buttons) + 1 if none
FirstRaise(st) ==
  IF \E i \in 1..Len(Buttons) : RestoreRaises(st, Buttons[i])
  THEN CHOOSE i \in 1..Len(Buttons) :
         /\ RestoreRaises(st, Buttons[i])
         /\ \A j \in 1..(i - 1) : ~RestoreRaises(st, Buttons[j])
  ELSE Len(Buttons) + 1

\* the buttons after load_settings on buttons c: a button is set checked when
\* its value is true, only axes_btn is also set unchecked; the statements
\* after the first raising call do not run
Restored(c, st) ==
  [b \in ButtonSet |->
     LET i == CHOOSE j \in 1..Len(Buttons) : Buttons[j] = b
     IN IF i > FirstRaise(st) THEN c[b]
        ELSE IF Value(st, b) THEN TRUE
        ELSE IF b = "axes_btn" THEN FALSE
        ELSE c[b]]

\* whether load_settings reaches self.set_wireframe_mode()
RestoresWireframe(st) == Value(st, "wireframe_btn") /\ FirstRaise(st) >= 2

\* load_settings on the buttons c of a window (the window geometry and the
\* dock state it restores first are not part of the model)
LoadSettings(c) ==
  /\ btn_checked' = Restored(c, settings)
  /\ load_result' = IF FirstRaise(settings) <= Len(Buttons)
                    THEN "raised" ELSE "ok"
  /\ UNCHANGED <<settings, toolbars, removed_toolbars>>

\* btn.setChecked(v), as the test of the toolbar does
setChecked(btn, v) ==
  /\ btn_checked' = [btn_checked EXCEPT ![btn] = v]
  /\ UNCHANGED <<settings, load_result, width, breaks, toolbars,
                 removed_toolbars>>
  /\ UNCHANGED session
  /\ UNCHANGED widgets
  /\ UNCHANGED tess

save_settings ==
  /\ settings' = [saved |-> TRUE, value |-> btn_checked]
  /\ UNCHANGED <<btn_checked, load_result, width, breaks, toolbars,
                 removed_toolbars>>
  /\ UNCHANGED session
  /\ UNCHANGED widgets
  /\ UNCHANGED tess

\* load_settings called on the window as it is
load_settings ==
  /\ LoadSettings(btn_checked)
  /\ UNCHANGED <<width, breaks>>
  /\ LET v == ApplyMode("Wireframe",
                        [mactor |-> mesh_actor, eactor |-> edge_actor])
     IN IF RestoresWireframe(settings) /\ ~mesh_actor.none
        THEN /\ mesh_actor' = v.mactor
             /\ edge_actor' = v.eactor
             /\ last_mode' = "Wireframe"
        ELSE UNCHANGED <<mesh_actor, edge_actor, last_mode>>
  /\ UNCHANGED <<tess, widgets, simplify_report, op_report, export_result, section_log,
                 measure_widgets, picking, engine, loose_edges, clip_actors, current_shape,
                 current_mesh, current_opacity, current_precision,
                 show_mesh_edges, is_sectioning, is_measuring, plane_widget,
                 progress_bar, timers>>

\* MainWindow(): a new window on the same store; setup_top_toolbar creates
\* the buttons unchecked and setup_ui ends with load_settings
new_window ==
  /\ LoadSettings([b \in ButtonSet |-> FALSE])
  /\ width' = InitialWidth
  /\ breaks' = UpdateLayout({}, InitialWidth)
  /\ current_shape' = NoShape
  /\ current_mesh' = NoMesh
  /\ mesh_actor' = NoActor
  /\ edge_actor' = NoEdges
  /\ loose_edges' = FALSE
  /\ clip_actors' = 0
  /\ current_opacity' = 100
  /\ current_precision' = "Medium"
  /\ show_mesh_edges' = FALSE
  /\ is_sectioning' = FALSE
  /\ is_measuring' = FALSE
  /\ plane_widget' = "none"
  /\ progress_bar' = 0
  /\ timers' = 0
  /\ measure_widgets' = 0
  /\ picking' = FALSE
  /\ section_btn' = FALSE
  /\ measure_btn' = FALSE
  /\ is_independent_mode' = FALSE
  /\ tb_visible' = [n \in AllToolbars |-> TRUE]
  /\ tb_was' = [n \in AllToolbars |-> FALSE]
  /\ is_rotating' = FALSE
  /\ rotation_timer' = FALSE
  /\ rotate_btn' = FALSE
  /\ float_rotate_btn' = FALSE
  /\ log_visible' = TRUE
  /\ log_was' = FALSE
  /\ menubar_visible' = TRUE
  /\ float_visible' = FALSE
  /\ progress_visible' = TRUE
  /\ window_opacity' = 100
  /\ UNCHANGED <<tess, engine, last_mode, export_result, section_log,
                 simplify_report, op_report, recent, entered_from,
                 screenshot_result>>

(* ------------------------------- export -------------------------------- *)
\* extensions typed into the save dialog; "" stands for a cancelled dialog
ExportExts == {"", ".step", ".stp", ".stl", ".txt"}
ExportFails == {"none", "write"}

\* export_file without the return that follows the format warning
ExportResult_no_return(ext, fail) ==
  IF current_mesh = NoMesh /\ current_shape = NoShape THEN "no_model"
  ELSE IF ext = "" THEN "cancelled"
  ELSE IF ext \in {".step", ".stp"}
       THEN IF current_shape # NoShape
            THEN IF fail = "write" THEN "error" ELSE "success"
            ELSE "success"
  ELSE IF ext \in {".stl", ".obj", ".ply", ".vtk"}
       THEN IF current_mesh # NoMesh /\ fail = "none" THEN "success"
            ELSE "error"
  ELSE "success"

\* the message box (or silent return) that ends export_file: "no_model" and
\* "mismatch" are the two QMessageBox.warning texts, "success" the
\* information box, "error" the critical box of the handler.  fail = "write":
\* the STEP writer reports a status other than IFSelect_RetDone, or
\* current_mesh.save raises
ExportResult(ext, fail) ==
  IF current_mesh = NoMesh /\ current_shape = NoShape THEN "no_model"
  ELSE IF ext = "" THEN "cancelled"
  ELSE IF ext \in {".step", ".stp"}
       THEN IF current_shape # NoShape
            THEN IF fail = "write" THEN "error" ELSE "success"
            ELSE "mismatch"
  ELSE IF ext \in {".stl", ".obj", ".ply", ".vtk"}
       THEN IF current_mesh # NoMesh /\ fail = "none" THEN "success"
            ELSE "error"
  ELSE "success"

\* export_file: writes a file, no attribute of the session
export_file(ext, fail) ==
  /\ export_result' = ExportResult(ext, fail)
  /\ UNCHANGED <<tess, ui, widgets, op_report, simplify_report, section_log, measure_widgets, picking,
                 engine, loose_edges, clip_actors, current_shape, current_mesh,
                 mesh_actor, edge_actor, current_opacity, current_precision,
                 show_mesh_edges, is_sectioning, is_measuring, plane_widget,
                 progress_bar, timers, last_mode>>

(* ---------------------------- tessellator ------------------------------ *)
\* BRep_Tool.Triangulation_s(face, location): None, or a triangulation with
\* nb_nodes nodes and triangles of three 1-based node indices (at most one
\* triangle per face: the loop converts each triangle on its own)
NoTriangulation == [none |-> TRUE, nb_nodes |-> 0, tris |-> <<>>]
SeqsUpTo(S, n) == UNION {[1..k -> S] : k \in 0..n}
Triangulations ==
  {NoTriangulation} \cup
  UNION {{[none |-> FALSE, nb_nodes |-> n, tris |-> ts] :
            ts \in SeqsUpTo((1..n) \X (1..n) \X (1..n), 1)} :
         n \in 0..MaxNodes}
Shapes == SeqsUpTo(Triangulations, MaxFaces)

\* triangles.append([3, idx1 + offset - 1, idx2 + offset - 1, idx3 + offset - 1])
\* without the conversion to 0-based indices
VtkTriangle_one_based(tri, offset) ==
  <<3, tri[1] + offset, tri[2] + offset, tri[3] + offset>>

VtkTriangle(tri, offset) ==
  <<3, tri[1] + offset - 1, tri[2] + offset - 1, tri[3] + offset - 1>>

\* the call _shape_to_pyvista_mesh(shape, ...) up to explorer = TopExp_Explorer(...)
tess_begin ==
  /\ explorer = 0 /\ polydata = NoPolyData
  /\ explorer' = 1
  /\ vertices' = <<>>
  /\ triangles' = <<>>
  /\ UNCHANGED <<faces, polydata>>
  /\ UNCHANGED session
  /\ UNCHANGED widgets
  /\ UNCHANGED ui

\* the loop body with offset = len(vertices) taken after the nodes of the
\* face were appended
tess_face_offset_after ==
  /\ explorer \in 1..Len(faces)
  /\ LET triangulation == faces[explorer]
         offset == Len(vertices) + triangulation.nb_nodes
     IN IF ~triangulation.none
        THEN /\ vertices' = vertices \o
                   [i \in 1..triangulation.nb_nodes |-> <<explorer, i>>]
             /\ triangles' = triangles \o
                   [i \in 1..Len(triangulation.tris) |->
                      VtkTriangle(triangulation.tris[i], offset)]
        ELSE UNCHANGED <<vertices, triangles>>
  /\ explorer' = explorer + 1
  /\ UNCHANGED <<faces, polydata>>
  /\ UNCHANGED session
  /\ UNCHANGED widgets
  /\ UNCHANGED ui

\* one pass of the while explorer.More() loop
tess_face ==
  /\ explorer \in 1..Len(faces)
  /\ LET triangulation == faces[explorer]
         offset == Len(vertices)
     IN IF ~triangulation.none
        THEN /\ vertices' = vertices \o
                   [i \in 1..triangulation.nb_nodes |-> <<explorer, i>>]
             /\ triangles' = triangles \o
                   [i \in 1..Len(triangulation.tris) |->
                      VtkTriangle(triangulation.tris[i], offset)]
        ELSE UNCHANGED <<vertices, triangles>>
  /\ explorer' = explorer + 1
  /\ UNCHANGED <<faces, polydata>>
  /\ UNCHANGED session
  /\ UNCHANGED widgets
  /\ UNCHANGED ui

\* return pv.PolyData(np.array(vertices), np.array(triangles).flatten())
tess_return ==
  /\ explorer = Len(faces) + 1
  /\ polydata = NoPolyData
  /\ polydata' = [built |-> TRUE, points |-> vertices, cells |-> triangles]
  /\ UNCHANGED <<faces, explorer, vertices, triangles>>
  /\ UNCHANGED session
  /\ UNCHANGED widgets
  /\ UNCHANGED ui

(* --------------------------- specifications --------------------------- *)
\* The import pipeline, the geometry operations and the section tool, with
\* two of the display modes; no library call raises.
Next ==
  \/ \E path \in Paths : load_step(path, "none")
  \/ timer_fires
  \/ \E text \in Levels : on_precision_changed(text, "none")
  \/ \E ok \in BOOLEAN : simplify_mesh(ok, "none")
  \/ subdivide_mesh("none")
  \/ delete_object("none")
  \/ reset_settings
  \/ set_shaded_mode
  \/ set_wireframe_mode
  \/ \E checked \in BOOLEAN : toggle_edges(checked, "none")
  \/ toggle_section("none")

Spec == Init /\ [][Next]_vars

\* The display modes and the section tool on models whose import succeeded.
NextView ==
  \/ \E path \in Paths : load_step(path, "none")
  \/ timer_fires
  \/ set_shaded_mode
  \/ set_wireframe_mode
  \/ set_transparent_mode
  \/ set_surface_with_edges_mode
  \/ set_points_mode
  \/ \E value \in Opacities : on_opacity_changed(value)
  \/ \E checked \in BOOLEAN : \E fail \in Raises : toggle_edges(checked, fail)
  \/ \E fail \in Raises : toggle_section(fail)
  \/ \E f1 \in Raises : \E f2 \in Raises : reset_section_plane(f1, f2)
  \/ \E axis \in Axes : \E f1 \in Raises : \E f2 \in Raises :
       set_section_axis(axis, f1, f2)

SpecView == Init /\ [][NextView]_vars

\* The import pipeline and the geometry operations with the library calls
\* that can raise.
NextFail ==
  \/ \E path \in Paths : \E fail \in ImportFails(path) : load_step(path, fail)
  \/ timer_fires
  \/ \E ok \in BOOLEAN : \E fail \in SimplifyFails : simplify_mesh(ok, fail)
  \/ \E fail \in SubdivideFails : subdivide_mesh(fail)
  \/ \E fail \in Raises : delete_object(fail)
  \/ \E checked \in BOOLEAN : toggle_edges(checked, "none")
  \/ set_wireframe_mode

SpecFail == Init /\ [][NextFail]_vars

\* The section, measurement and picking tools on models that come and go.
NextTool ==
  \/ \E path \in Paths : load_step(path, "none")
  \/ timer_fires
  \/ delete_object("none")
  \/ set_wireframe_mode
  \/ \E checked \in BOOLEAN : toggle_edges(checked, "none")
  \/ \E fail \in Raises : toggle_section(fail)
  \/ \E axis \in Axes : \E f1 \in Raises : \E f2 \in Raises :
       set_section_axis(axis, f1, f2)
  \/ \E fail \in MeasureFails : toggle_measure(fail)
  \/ \E checked \in BOOLEAN : enable_point_picking(checked)

SpecTool == Init /\ [][NextTool]_vars

\* Every entry of the display-mode menu on models that are re-tessellated
\* and simplified in between.
NextMode ==
  \/ \E path \in Paths : load_step(path, "none")
  \/ timer_fires
  \/ \E text \in Levels : on_precision_changed(text, "none")
  \/ simplify_mesh(TRUE, "none")
  \/ set_shaded_mode
  \/ set_wireframe_mode
  \/ set_transparent_mode
  \/ set_surface_with_edges_mode
  \/ set_points_mode
  \/ set_flat_shading_mode
  \/ set_smooth_shading_mode

SpecMode == Init /\ [][NextMode]_vars

\* The geometry operations with their failure points, on imported and on
\* deleted models.
NextEdit ==
  \/ \E path \in Paths : load_step(path, "none")
  \/ timer_fires
  \/ \E ok \in BOOLEAN, f \in SimplifyFails : simplify_mesh(ok, f)
  \/ \E f \in SubdivideFails : subdivide_mesh(f)
  \/ delete_object("none")

SpecEdit == Init /\ [][NextEdit]_vars

\* The analysis tools, the geometry operations, the section tool and export
\* on sessions with and without a model.
NextQuery ==
  \/ \E path \in Paths : load_step(path, "none")
  \/ timer_fires
  \/ delete_object("none")
  \/ \E f \in Raises : plot_curvature(f)
  \/ \E f \in Raises : plot_elevation(f)
  \/ \E f \in Raises : show_normals(f)
  \/ \E f \in Raises \cup {"quality"} : compute_quality(f)
  \/ \E f \in Raises : clip_box(f)
  \/ \E f \in Raises : calculate_properties(f)
  \/ subdivide_mesh("none")
  \/ \E ok \in BOOLEAN : simplify_mesh(ok, "none")
  \/ toggle_section("none")
  \/ \E ext \in ExportExts : export_file(ext, "none")

SpecQuery == Init /\ [][NextQuery]_vars

\* The persisted toggle buttons across windows that share the store.
NextSettings ==
  \/ \E b \in ButtonSet, v \in BOOLEAN : setChecked(b, v)
  \/ save_settings
  \/ load_settings
  \/ new_window

SpecSettings == Init /\ [][NextSettings]_vars

\* Resizes and rebuilds of the toolbars, with buttons being checked.
NextLayout ==
  \/ \E w \in Widths, visible \in BOOLEAN : resize(w, visible)
  \/ update_responsive_layout
  \/ setup_top_toolbar
  \/ \E b \in ButtonSet, v \in BOOLEAN : setChecked(b, v)

SpecLayout == Init /\ [][NextLayout]_vars

\* Import and precision changes with every text on_precision_changed accepts.
NextPrecision ==
  \/ \E path \in Paths : load_step(path, "none")
  \/ timer_fires
  \/ \E text \in PrecisionTexts : on_precision_changed(text, "none")
  \/ delete_object("none")
  \/ \E ok \in BOOLEAN : simplify_mesh(ok, "none")

SpecPrecision == Init /\ [][NextPrecision]_vars

\* The section and measurement tools started from their toolbar buttons and
\* from the menus, on models that come and go.
NextButtons ==
  \/ \E path \in Paths : load_step(path, "none")
  \/ timer_fires
  \/ delete_object("none")
  \/ \E fail \in Raises : click_section_btn(fail)
  \/ \E fail \in MeasureFails : click_measure_btn(fail)
  \/ \E fail \in Raises : toggle_section(fail)
  \/ \E fail \in MeasureFails : toggle_measure(fail)
  \/ \E axis \in Axes : set_section_axis(axis, "none", "none")
  \/ reset_section_plane("none", "none")

SpecButtons == Init /\ [][NextButtons]_vars

\* The operations that move the progress indicator, with the library calls
\* that can raise; the event loop delivers every pending single-shot timer.
NextProgress ==
  \/ \E path \in Paths : \E fail \in ImportFails(path) : load_step(path, fail)
  \/ timer_fires
  \/ \E text \in Levels : \E fail \in LoadCurrentShapeFails :
       on_precision_changed(text, fail)

SpecProgress == Init /\ [][NextProgress]_vars /\ WF_vars(timer_fires)

\* The recent-files list, from every list within the bounds that the store
\* may hold at start-up.
InitRecent ==
  /\ \E e \in Engines : InitSession(e)
  /\ recent_files \in StoredLists
  /\ faces = <<>>
  /\ explorer = 0
  /\ vertices = <<>>
  /\ triangles = <<>>
  /\ polydata = NoPolyData

NextRecent ==
  \/ \E path \in RecentPaths : save_recent_file(path)
  \/ clear_recent_files

SpecRecent == InitRecent /\ [][NextRecent]_vars

\* The independent 3D-view mode, with toolbars and log area shown and hidden
\* from the View menu.
NextIndependent ==
  \/ \E tb \in ToolbarNames : \E checked \in BOOLEAN :
       toolbar_setVisible(tb, checked)
  \/ \E checked \in BOOLEAN : toggle_log_view(checked)
  \/ enter_independent_mode
  \/ exit_independent_mode

SpecIndependent == Init /\ [][NextIndependent]_vars

\* The automatic rotation, switched from the button below the view and from
\* the floating button of the independent mode, and screenshots.
NextRotation ==
  \/ click_rotate_btn
  \/ click_float_rotate_btn
  \/ \E path \in BOOLEAN : \E fail \in BOOLEAN : take_screenshot(path, fail)
  \/ enter_independent_mode
  \/ exit_independent_mode
  \/ \E checked \in BOOLEAN : toggle_log_view(checked)
  \/ \E p \in Paths : load_step(p, "none")
  \/ timer_fires

SpecRotation == Init /\ [][NextRotation]_vars

\* Import, deletion, precision changes, the tools and export.
NextExport ==
  \/ \E path \in Paths : load_step(path, "none")
  \/ timer_fires
  \/ \E text \in Levels : on_precision_changed(text, "none")
  \/ delete_object("none")
  \/ toggle_section("none")
  \/ toggle_measure("none")
  \/ \E ext \in ExportExts : \E fail \in ExportFails : export_file(ext, fail)

SpecExport == Init /\ [][NextExport]_vars

\* _shape_to_pyvista_mesh on every shape within the bounds, under the OCP
\* engine (the only one that calls it)
InitTess ==
  /\ InitSession("B-Rep (OCP)")
  /\ recent_files = <<>>
  /\ faces \in Shapes
  /\ explorer = 0
  /\ vertices = <<>>
  /\ triangles = <<>>
  /\ polydata = NoPolyData

NextTess ==
  \/ tess_begin
  \/ tess_face
  \/ tess_return

SpecTess == InitTess /\ [][NextTess]_vars

(* ------------------------------ claims --------------------------------- *)
\* the handler of display mode m
SetMode(m) ==
  CASE m = "Shaded" -> set_shaded_mode
    [] m = "ShadedWithEdges" -> set_surface_with_edges_mode
    [] m = "Wireframe" -> set_wireframe_mode
    [] m = "Transparent" -> set_transparent_mode
    [] OTHER -> set_points_mode

\* rows of the display-mode table for mode m: base actor a, edge toggle t,
\* user opacity o
RowBase(m, a) == a.visible = (m # "Wireframe")
RowEdgesShown(m, t) ==
  CASE m = "Shaded" -> t
    [] m \in {"Wireframe", "Transparent"} -> TRUE
    [] OTHER -> FALSE
RowEdgeColor(m) == IF m = "Shaded" THEN DarkEdge ELSE LightEdge
RowOpacity(m, a, o) ==
  a.opacity = IF m = "Transparent" THEN TransparentOpacity ELSE o
RowStyle(m, a) ==
  CASE m = "Points" -> a.style = "points"
    [] m = "ShadedWithEdges" -> a.style = "surface" /\ a.show_edges
    [] m = "Wireframe" -> TRUE
    [] OTHER -> a.style = "surface" /\ ~a.show_edges

\* the edge overlays on screen conform to the row of m: when the row shows
\* the overlay it is the overlay e of the current mesh, in the scene, visible
\* and of the colour of the row, and no other overlay (loose) is drawn; when
\* the row hides it no overlay is drawn
RowEdges(m, e, loose, t) ==
  IF RowEdgesShown(m, t)
  THEN /\ ~e.none /\ e.inScene /\ e.of_current /\ e.visible
       /\ e.color = RowEdgeColor(m)
       /\ ~loose
  ELSE ~(~e.none /\ e.inScene /\ e.visible) /\ ~loose

\* a handler replaces the current mesh and completes
MeshReplaced ==
  \/ \E path \in Paths : load_step(path, "none") /\ current_mesh' # NoMesh
  \/ \E text \in Levels :
       on_precision_changed(text, "none") /\ current_shape # NoShape
  \/ simplify_mesh(TRUE, "none") /\ current_mesh # NoMesh
  \/ subdivide_mesh("none") /\ current_mesh # NoMesh

\* every display-mode handler puts the actors the session refers to into the
\* row of its mode
ReferencedActorsFollowTable ==
  [][\A m \in Modes :
       (SetMode(m) /\ ~mesh_actor.none)
         => /\ RowBase(m, mesh_actor')
            /\ edge_actor'.none
                 \/ /\ edge_actor'.visible = RowEdgesShown(m, show_mesh_edges')
                    /\ RowEdgesShown(m, show_mesh_edges')
                         => edge_actor'.color = RowEdgeColor(m)]_vars

\* the display-mode handlers and ApplyMode agree on every step
HandlersAreApplyMode ==
  [][\A m \in Modes :
       SetMode(m)
         => LET r == ApplyMode(m, [mactor |-> mesh_actor, eactor |-> edge_actor])
            IN mesh_actor' = r.mactor /\ edge_actor' = r.eactor]_vars

\* C1: every display-mode switch on a loaded model leaves base-mesh
\* visibility, edge-overlay visibility and edge colour as the row of the mode
\* table for the selected mode says, whatever the mode before the switch.
C1_ModeTable ==
  [][\A m \in Modes :
       (SetMode(m) /\ ~mesh_actor.none)
         => /\ RowBase(m, mesh_actor')
            /\ RowEdges(m, edge_actor', loose_edges', show_mesh_edges')]_vars

\* C2: mode artifacts do not leak: after a switch to Shaded, ShadedWithEdges
\* or Points the base opacity is the user's current opacity, and after a
\* switch to Shaded, Wireframe or Transparent the base actor has neither
\* baked-in edges nor the point style.
C2_NoLeak ==
  [][\A m \in Modes :
       (SetMode(m) /\ ~mesh_actor.none)
         => /\ m \in {"Shaded", "ShadedWithEdges", "Points"}
                 => mesh_actor'.opacity = current_opacity'
            /\ m \in {"Shaded", "Wireframe", "Transparent"}
                 => ~mesh_actor'.show_edges /\ mesh_actor'.style # "points"]_vars

\* C3: while the Section tool is Active the base mesh is hidden.
C3_SectionHidesBase ==
  (is_sectioning /\ ~mesh_actor.none) => ~mesh_actor.visible

\* C4: toggle_section twice in a row, starting with Section Off on a loaded
\* model, leaves base-mesh visibility as it was.
C4_SectionRoundTrip ==
  (plotter /\ ~is_sectioning /\ current_mesh # NoMesh /\ ~mesh_actor.none)
    => ToggleSection(ToggleSection(Tool, "none"), "none").mactor.visible
         = mesh_actor.visible

\* C5: deactivating Section sets base-mesh visibility to what the display
\* mode applied last dictates: hidden for Wireframe, shown otherwise.
C5_DeactivateRestoresMode ==
  [][(toggle_section("none") /\ is_sectioning /\ ~is_sectioning'
        /\ ~mesh_actor.none /\ last_mode \in Modes)
       => RowBase(last_mode, mesh_actor')]_vars

\* C6: resetting the section plane while Section is Active on axis a leaves
\* Section Active on the same axis a.
C6_ResetKeepsAxis ==
  [][(reset_section_plane("none", "none") /\ is_sectioning
        /\ plane_widget \in Axes /\ current_mesh # NoMesh)
       => is_sectioning' /\ plane_widget' = plane_widget]_vars

\* C7: after every operation that replaces the current mesh, edge_actor is an
\* overlay extracted from the new current mesh and present in the scene.
C7_EdgesRegenerated ==
  [][MeshReplaced
       => ~edge_actor'.none /\ edge_actor'.of_current /\ edge_actor'.inScene]_vars

\* C8: after a mesh replacement the new mesh is displayed in the display mode
\* selected last before it: base and edge visibility, opacity and style are
\* those of that mode's table row.
C8_ModeKept ==
  [][(MeshReplaced /\ last_mode \in Modes)
       => /\ mesh_actor'.of_current /\ mesh_actor'.inScene
          /\ RowBase(last_mode, mesh_actor')
          /\ RowEdges(last_mode, edge_actor', loose_edges', show_mesh_edges')
          /\ RowOpacity(last_mode, mesh_actor', current_opacity')
          /\ RowStyle(last_mode, mesh_actor')]_vars

\* C9: with a Shape present, changing the precision to level L makes the
\* current mesh the tessellation of the Shape at the deflection pair of L,
\* the mesh a fresh import of the same file at level L gives.
C9_PrecisionRetessellates ==
  [][\A text \in Levels :
       (on_precision_changed(text, "none") /\ current_shape # NoShape)
         => current_mesh' = ShapeToPyvistaMesh(ReadShape(current_shape.file),
                                               params(text)[1], params(text)[2])]_vars

\* C10: with no Shape present a precision change leaves the current mesh, the
\* edge overlays, the actors, the tool states and the progress indicator
\* unchanged.
C10_PrecisionNoOp ==
  [][\A text \in Levels :
       (on_precision_changed(text, "none") /\ current_shape = NoShape)
         => UNCHANGED <<current_shape, current_mesh, mesh_actor, edge_actor,
                        loose_edges, is_sectioning, is_measuring,
                        plane_widget, progress_bar, timers>>]_vars

\* C10 witness: a mesh-only session (the gmsh engine never holds a Shape)
\* whose precision was changed while a model is loaded and being sectioned.
C10_Witness ==
  /\ engine = "Mesh (Preview)"
  /\ current_shape = NoShape /\ current_mesh # NoMesh
  /\ current_precision = "High"
  /\ is_sectioning /\ is_measuring
  /\ progress_bar = 100

\* C11: every index of every triangle of the mesh that the tessellator
\* returns is >= 0 and < the number of vertices of the mesh, for every shape
\* whose per-face triangle indices lie in 1..nb_nodes of the face.
C11_IndexValid ==
  polydata.built =>
    \A t \in 1..Len(polydata.cells) : \A k \in 2..4 :
      polydata.cells[t][k] >= 0 /\ polydata.cells[t][k] < Len(polydata.points)

\* C11 witness: a returned mesh of a shape with a face without triangulation
\* and two triangulated faces, the later one with a triangle on its last
\* node, which becomes the last vertex of the mesh.
C11_Witness ==
  /\ polydata.built
  /\ Len(faces) = 3
  /\ faces[1].none /\ ~faces[2].none /\ ~faces[3].none
  /\ faces[2].nb_nodes > 0
  /\ Len(polydata.cells) > 0
  /\ \E t \in 1..Len(polydata.cells) : \E k \in 2..4 :
       polydata.cells[t][k] = Len(polydata.points) - 1

\* C12: exporting to .step/.stp while the session holds a Mesh and no Shape
\* ends with the format-mismatch message and changes nothing of the session;
\* a mesh-file import drops the Shape of an earlier STEP import, so this is
\* the outcome after a STEP import followed by a mesh-file import.
C12_StepExportNeedsShape ==
  [][/\ \A ext \in {".step", ".stp"} : \A fail \in ExportFails :
          (export_file(ext, fail) /\ current_mesh # NoMesh
             /\ current_shape = NoShape)
            => /\ export_result' = "mismatch"
               /\ UNCHANGED <<current_shape, current_mesh, mesh_actor,
                              edge_actor, loose_edges, is_sectioning,
                              is_measuring, plane_widget, last_mode,
                              current_opacity, current_precision>>
     /\ \A path \in Paths :
          (load_step(path, "none") /\ ~IsStep(path) /\ plotter
             /\ current_shape # NoShape)
            => current_shape' = NoShape /\ current_mesh' # NoMesh]_vars

\* C12 witness: under the OCP engine (STEP imports give a Shape) the session
\* holds a mesh read from a mesh file and no Shape, is being sectioned, and
\* the last export ended with the format-mismatch message.
C12_Witness ==
  /\ engine = "B-Rep (OCP)"
  /\ current_mesh.how = "read" /\ current_shape = NoShape
  /\ is_sectioning
  /\ export_result = "mismatch"

\* C13: an import that fails (file read, STEP transfer, tessellation, or the
\* renderer while adding the mesh) leaves Shape, Mesh, edge overlay and
\* actors as they were, and the session never holds the Shape of one file
\* together with the Mesh of another.
C13_FailedImportKeepsState ==
  [][\A path \in Paths :
       \A fail \in ImportFails(path) \cap {"read", "transfer", "tess", "add_mesh"} :
         load_step(path, fail)
           => /\ UNCHANGED <<current_shape, current_mesh, mesh_actor,
                             edge_actor, loose_edges>>
              /\ current_shape' # NoShape
                   => current_mesh'.file = current_shape'.file]_vars

\* C14: simplify and subdivide are all-or-nothing: when an internal step
\* fails, current mesh, mesh actor and edge overlay are those from before
\* the call.
C14_AllOrNothing ==
  [][/\ \A fail \in SimplifyFails \ {"none"} :
          simplify_mesh(TRUE, fail)
            => UNCHANGED <<current_mesh, mesh_actor, edge_actor, loose_edges>>
     /\ \A fail \in SubdivideFails \ {"none"} :
          subdivide_mesh(fail)
            => UNCHANGED <<current_mesh, mesh_actor, edge_actor, loose_edges>>]_vars

\* an attempt to activate Section (toggle_section, or set_section_axis on any
\* axis) while the tool is Off
ActivateSection ==
  /\ ~is_sectioning
  /\ \/ \E fail \in Raises : toggle_section(fail)
     \/ \E axis \in Axes : \E f1 \in Raises : \E f2 \in Raises :
          set_section_axis(axis, f1, f2)

C16_MeshLifecycle ==
  [][/\ current_mesh' = NoMesh
          => mesh_actor'.none /\ edge_actor'.none /\ ~loose_edges'
     /\ delete_object("none")
          => /\ current_mesh' = NoMesh /\ current_shape' = NoShape
             /\ mesh_actor'.none /\ edge_actor'.none /\ ~loose_edges'
             /\ ~is_sectioning' /\ ~is_measuring'
     /\ (current_mesh = NoMesh /\ current_mesh' # NoMesh)
          => \E path \in Paths : load_step(path, "none")]_vars

\* C17: on a loaded model, applying a display mode twice in a row gives the
\* actor state (base visibility, style, opacity, baked edges, edge
\* visibility, edge colour) of applying it once, and the actor state after
\* applying mode m is the same whichever mode n was applied before it.
C17_ModeIdempotentHistoryFree ==
  ~mesh_actor.none =>
    LET v == [mactor |-> mesh_actor, eactor |-> edge_actor]
    IN \A m \in Modes :
         /\ ApplyMode(m, ApplyMode(m, v)) = ApplyMode(m, v)
         /\ \A n \in Modes : ApplyMode(m, ApplyMode(n, v)) = ApplyMode(m, v)

\* C18: no display-mode switch (the five modes, flat and smooth shading)
\* changes the current mesh or the Shape.
C18_ModesKeepMesh ==
  [][((\E m \in Modes : SetMode(m))
        \/ set_flat_shading_mode \/ set_smooth_shading_mode)
       => UNCHANGED <<current_mesh, current_shape>>]_vars

\* C18 witness: a tessellated and simplified model with its Shape, switched
\* to Points and to flat shading.
C18_Witness ==
  /\ current_shape # NoShape
  /\ current_mesh.edits = 1
  /\ last_mode = "Points"
  /\ mesh_actor.style = "points"
  /\ mesh_actor.interpolation = "flat"

\* C19: no simplify_mesh or subdivide_mesh call, successful or failed,
\* changes the Shape; simplify_mesh with no mesh ends with the warning that
\* there is no model and changes nothing else.
C19_SimplifyKeepsShape ==
  [][/\ ((\E ok \in BOOLEAN, f \in SimplifyFails : simplify_mesh(ok, f))
           \/ (\E f \in SubdivideFails : subdivide_mesh(f)))
        => UNCHANGED current_shape
     /\ ((\E ok \in BOOLEAN, f \in SimplifyFails : simplify_mesh(ok, f))
           /\ current_mesh = NoMesh)
        => /\ simplify_report' = "no_model"
           /\ UNCHANGED <<current_shape, current_mesh, mesh_actor, edge_actor,
                          loose_edges, current_opacity, current_precision,
                          show_mesh_edges, is_sectioning, is_measuring,
                          plane_widget, progress_bar, timers>>]_vars

\* C19 witness: a simplified mesh next to the Shape it was tessellated from
C19_Witness ==
  /\ current_shape # NoShape
  /\ current_mesh.edits > 0
  /\ simplify_report = "done"

\* C19 witness of the second half: simplify_mesh was called with no mesh
C19_NoModelReported ==
  /\ current_mesh = NoMesh
  /\ simplify_report = "no_model"

\* C20: a toggle_measure or enable_point_picking call changes neither the
\* visibility of the base mesh or of the edge overlay nor the Section state;
\* each toggle_measure call that completes flips is_measuring; a call that
\* turns Measurement Off leaves no measurement widget on the plotter.
C20_ToolsIndependent ==
  [][/\ ((\E f \in MeasureFails : toggle_measure(f))
           \/ (\E checked \in BOOLEAN : enable_point_picking(checked)))
        => UNCHANGED <<mesh_actor, edge_actor, loose_edges, is_sectioning,
                       plane_widget, section_log>>
     /\ (toggle_measure("none") /\ plotter)
        => is_measuring' = ~is_measuring
     /\ ((\E f \in MeasureFails : toggle_measure(f))
           /\ is_measuring /\ ~is_measuring')
        => measure_widgets' = 0]_vars

\* C20 witness: Measurement and PointPicking turned on while a section hides
\* the base mesh
C20_Witness ==
  /\ is_sectioning
  /\ ~mesh_actor.none /\ ~mesh_actor.visible
  /\ is_measuring /\ measure_widgets = 1
  /\ picking

\* C20: Measurement was turned Off again under an open section
C20_TurnedOff ==
  /\ is_sectioning
  /\ ~is_measuring /\ measure_widgets = 0
  /\ picking

\* the reports that tell the caller that the call failed
ErrorReports == {"no_model", "error"}

\* C21: every mesh query, tool activation and geometry operation called with
\* no mesh ends with an error report, never silently.
C21_NoMeshReported ==
  [][current_mesh = NoMesh =>
       /\ ((\E f \in Raises :
              \/ plot_curvature(f) \/ plot_elevation(f) \/ show_normals(f)
              \/ compute_quality(f) \/ clip_box(f) \/ calculate_properties(f))
            \/ subdivide_mesh("none"))
          => op_report' \in ErrorReports
       /\ (\E ok \in BOOLEAN : simplify_mesh(ok, "none"))
          => simplify_report' = "no_model"
       /\ toggle_section("none") => section_log' = "no_model"
       /\ (\E ext \in ExportExts : export_file(ext, "none"))
          => export_result' \in {"no_model", "mismatch", "error"}]_vars

\* the part of C21 that holds: the tools that show the warning box
WarningToolsReport ==
  [][current_mesh = NoMesh =>
       /\ (\E f \in Raises :
              plot_curvature(f) \/ plot_elevation(f) \/ calculate_properties(f))
          => op_report' = "no_model"
       /\ (\E ok \in BOOLEAN : simplify_mesh(ok, "none"))
          => simplify_report' = "no_model"]_vars

\* C22: whatever fails inside the import (STEP reading, transfer,
\* tessellation, the renderer), load_step runs to its end: the progress bar
\* is set to 100 and the timer that resets it to 0 is started.
C22_ImportReturns ==
  [][\A path \in Paths : \A fail \in ImportFails(path) :
       load_step(path, fail)
         => progress_bar' = 100 /\ timers' = timers + 1]_vars

\* the part of C22 that holds: every failure other than one of the STEP
\* transfer under the OCP engine returns through the end of load_step
OtherFailuresReturn ==
  [][\A path \in Paths : \A fail \in ImportFails(path) :
       (load_step(path, fail) /\ ~Escapes(path, fail))
         => progress_bar' = 100 /\ timers' = timers + 1]_vars

Coarser(a, b) == a.lin >= b.lin /\ a.ang >= b.ang

\* the mesh load_current_shape produces from the Shape at level L
MeshAt(L) == ShapeToPyvistaMesh(current_shape, params(L)[1], params(L)[2])

C25_TessellationPure ==
  (current_shape # NoShape /\ current_mesh.how = "tess"
     /\ current_mesh.edits = 0 /\ current_mesh.scalars = {})
    => current_mesh = ShapeToPyvistaMesh(ReadShape(current_shape.file),
                                         params(current_precision)[1],
                                         params(current_precision)[2])

\* the part of C25 that holds: tessellating again at the level of the
\* current mesh gives the same mesh
SameLevelSameMesh ==
  [][(on_precision_changed(current_precision, "none")
        /\ current_shape # NoShape /\ current_mesh.how = "tess"
        /\ current_mesh.edits = 0)
       => current_mesh' = current_mesh]_vars

\* C26: after save_settings, a new window loads the settings without error
\* and each persisted toggle button has the checked state that was saved.
C26_SettingsRoundTrip ==
  [][(new_window /\ settings.saved)
       => /\ load_result' = "ok"
          /\ \A b \in ButtonSet : btn_checked'[b] = settings.value[b]]_vars

\* the part of C26 that holds: with a plotter, the axes saved checked and the
\* bounds saved unchecked (the case of test_tool_state_persistence), the
\* round trip is exact
RoundTripOfTheTest ==
  [][(new_window /\ settings.saved /\ plotter
        /\ settings.value["axes_btn"] /\ ~settings.value["bounds_btn"])
       => /\ load_result' = "ok"
          /\ \A b \in ButtonSet : btn_checked'[b] = settings.value[b]]_vars

\* the toolbar breaks the layout prescribes for width w
BreaksAt(w) ==
  IF w < 480 THEN {"tb_view", "tb_tools"}
  ELSE IF w < 800 THEN {"tb_render"}
  ELSE {}

\* C27: after update_responsive_layout the toolbar breaks are a function of
\* the window width alone: before View and Tools below 480, before Render
\* from 480 to 799, none from 800 on, whatever the resizes before.
C27_ResponsiveLayout ==
  [][(update_responsive_layout \/ \E w \in Widths : resize(w, TRUE))
       => breaks' = BreaksAt(width')]_vars

\* C27 witness: the window was narrowed from its initial 700 to below 480
\* and laid out again
C27_Witness ==
  /\ width = 400
  /\ breaks = {"tb_view", "tb_tools"}

\* C28: the window has exactly one File, View, Render and Tools toolbar, also
\* after further calls of setup_top_toolbar, with at least 3, 7 and 7 entries
\* in File, View and Render.
C28_OneToolbarEach ==
  /\ \A n \in ToolbarNames : toolbars[n].inWindow = 1
  /\ toolbars["tb_file"].entries >= 3
  /\ toolbars["tb_view"].entries >= 7
  /\ toolbars["tb_render"].entries >= 7

\* C28 witness: setup_top_toolbar was called again after the construction
C28_Witness ==
  /\ removed_toolbars = 4
  /\ \A n \in ToolbarNames : toolbars[n].inWindow = 1

\* nodes and triangles of the faces 1..k of fs that carry a triangulation
RECURSIVE NodesUpTo(_, _)
NodesUpTo(fs, k) ==
  IF k = 0 THEN 0
  ELSE NodesUpTo(fs, k - 1) + (IF fs[k].none THEN 0 ELSE fs[k].nb_nodes)

RECURSIVE TrianglesUpTo(_, _)
TrianglesUpTo(fs, k) ==
  IF k = 0 THEN 0
  ELSE TrianglesUpTo(fs, k - 1) + (IF fs[k].none THEN 0 ELSE Len(fs[k].tris))

\* C29: the mesh returned has the nodes of the triangulated faces as its
\* vertices, face after face from the offset given by the nodes of the
\* triangulated faces before it, and their triangles as its triangles; faces
\* without triangulation contribute nothing; each triangle refers to
\* vertices of its own face only.
C29_FaceOffsets ==
  polydata.built =>
    /\ Len(polydata.points) = NodesUpTo(faces, Len(faces))
    /\ Len(polydata.cells) = TrianglesUpTo(faces, Len(faces))
    /\ \A k \in 1..Len(faces) :
         ~faces[k].none =>
           /\ \A i \in 1..faces[k].nb_nodes :
                polydata.points[NodesUpTo(faces, k - 1) + i] = <<k, i>>
           /\ \A j \in 1..Len(faces[k].tris) :
                LET cell == polydata.cells[TrianglesUpTo(faces, k - 1) + j]
                IN \A c \in 2..4 :
                     /\ cell[c] + 1 \in 1..Len(polydata.points)
                     /\ polydata.points[cell[c] + 1][1] = k

\* C29 witness: a face without triangulation between two triangulated faces,
\* the last of them with a triangle
C29_Witness ==
  /\ polydata.built
  /\ Len(faces) = 3
  /\ ~faces[1].none /\ faces[1].nb_nodes > 0
  /\ faces[2].none
  /\ ~faces[3].none /\ Len(faces[3].tris) > 0
  /\ Len(polydata.cells) > 0

\* an activation, axis change, reset or deactivation of the section tool
SectionCall ==
  \/ \E f \in Raises : toggle_section(f)
  \/ \E f1 \in Raises, f2 \in Raises : reset_section_plane(f1, f2)
  \/ \E axis \in Axes, f1 \in Raises, f2 \in Raises :
       set_section_axis(axis, f1, f2)

\* C30: at most one section clip overlay: after each call of the section
\* tool the scene holds one clipped-mesh actor and one plane widget when the
\* tool is Active, and none when it is Off.
C30_OneClipOverlay ==
  [][SectionCall
       => IF is_sectioning'
          THEN clip_actors' = 1 /\ plane_widget' \in Axes
          ELSE clip_actors' = 0 /\ plane_widget' = "none"]_vars

\* the part of C30 that holds: the plane widgets are torn down before a new
\* one is added, so there is one while Active and none while Off
OnePlaneWidget ==
  [][(SectionCall /\ (is_sectioning <=> plane_widget \in Axes)
        /\ section_log' \notin {"axis_failed", "close_failed", "open_failed"})
       => (is_sectioning' <=> plane_widget' \in Axes)]_vars

\* C31: the precision table maps Low, Medium, High to the deflection pairs
\* (0.5, 0.8), (0.1, 0.5), (0.02, 0.1) (in hundredths here), all positive and
\* strictly decreasing in both components; a precision text outside the three
\* levels is tessellated with the pair of Medium.
C31_PrecisionTable ==
  /\ [](/\ params("Low") = <<50, 80>>
        /\ params("Medium") = <<10, 50>>
        /\ params("High") = <<2, 10>>
        /\ \A L \in Levels : params(L)[1] > 0 /\ params(L)[2] > 0
        /\ \A i \in 1..2 : /\ params("Low")[i] > params("Medium")[i]
                           /\ params("Medium")[i] > params("High")[i])
  /\ [][\A text \in PrecisionTexts \ Levels :
          (on_precision_changed(text, "none") /\ current_shape # NoShape)
            => current_mesh' = MeshAt("Medium")]_vars

\* C31 witness: a Shape that carried no triangulation was tessellated under a
\* precision text outside the three levels
C31_Witness ==
  /\ current_precision \notin Levels
  /\ current_shape # NoShape
  /\ current_mesh.how = "tess" /\ current_mesh.edits = 0
  /\ current_mesh.lin = params("Medium")[1]

\* C32: while Wireframe or Transparent is the display mode selected last, the
\* edge overlay of the current mesh is visible in every reachable state; no
\* toggle_edges call hides it.
C32_EdgesStayVisible ==
  (last_mode \in {"Wireframe", "Transparent"}
     /\ ~edge_actor.none /\ edge_actor.of_current /\ edge_actor.inScene)
    => edge_actor.visible

\* the part of C32 that holds: the two mode handlers themselves show the
\* overlay the session refers to
ModeShowsEdges ==
  [][((set_wireframe_mode \/ set_transparent_mode)
        /\ ~mesh_actor.none /\ ~edge_actor.none)
       => edge_actor'.visible /\ edge_actor'.color = LightEdge]_vars

\* C33: the section flag agrees with the scene: whenever is_sectioning is
\* True a clip overlay exists in the scene, so every operation that clears
\* the scene while the section tool is Active leaves is_sectioning False.
C33_SectionFlagAgrees ==
  is_sectioning => clip_actors >= 1

\* the part of C33 that holds: delete_object clears the scene and resets the
\* flag with it
DeleteResetsSection ==
  [][(delete_object("none") /\ plotter)
       => ~is_sectioning' /\ clip_actors' = 0]_vars

\* C34: if creating the clip plane fails in toggle_section or in
\* set_section_axis, the base mesh is visible again and is_sectioning is
\* False afterwards: the base mesh is never left hidden for a clip overlay
\* that was not created.
C34_FailedClipRestores ==
  [][(SectionCall /\ section_log' \in {"open_failed", "axis_failed"})
       => /\ ~is_sectioning'
          /\ ~mesh_actor'.none => mesh_actor'.visible]_vars

\* the part of C34 that holds: toggle_section restores the base mesh when
\* its own add_mesh_clip_plane raises
ToggleSectionRestores ==
  [][\A f \in Raises :
       (toggle_section(f) /\ section_log' = "open_failed")
         => /\ ~is_sectioning'
            /\ ~mesh_actor'.none => mesh_actor'.visible]_vars

\* C35: the checked state of the section button equals is_sectioning and the
\* checked state of the measurement button equals is_measuring, after any
\* sequence of button clicks, menu actions and failed activations.
C35_ButtonsAgree ==
  section_btn = is_sectioning /\ measure_btn = is_measuring

\* the part of C35 that holds: a click that finds button and tool in
\* agreement and whose slot switches the tool leaves them in agreement
ClickThatSwitchesAgrees ==
  /\ [][\A f \in Raises :
          (click_section_btn(f) /\ section_btn = is_sectioning
             /\ section_log' \in {"opened", "closed"})
            => section_btn' = is_sectioning']_vars
  /\ [][(click_measure_btn("none") /\ measure_btn = is_measuring /\ plotter)
          => measure_btn' = is_measuring']_vars

\* C36: after every operation that advances the progress indicator above 0
\* (load_step, a precision change that re-tessellates) the indicator
\* eventually returns to 0, on success and on failure.
C36_ProgressReturns ==
  (progress_bar > 0) ~> (progress_bar = 0)

\* the part of C36 that holds: a load_step that reaches its last statement
\* leaves a timer pending, and the timer takes the indicator back to 0
TimerReturnsProgress ==
  (timers > 0) ~> (progress_bar = 0)

\* the elements of list other than x, in their order
Without(list, x) == SelectSeq(list, LAMBDA y : y # x)

\* C37: after a save_recent_file call with a non-empty path the recent-files
\* list has no duplicate and at most 10 entries, its first entry is the
\* (absolute) path of the call, and the other entries are those of the list
\* before, in their order, the oldest dropped when the list would hold 11.
C37_RecentFiles ==
  /\ [](/\ Len(recent_files) <= 10
        /\ \A i, j \in 1..Len(recent_files) :
             recent_files[i] = recent_files[j] => i = j)
  /\ [][\A path \in RecentPaths \ {<<>>} :
          save_recent_file(path)
            => LET rest == Without(recent_files, abspath(path))
               IN /\ recent_files'[1] = abspath(path)
                  /\ Tail(recent_files') =
                       SubSeq(rest, 1, IF Len(rest) > 9 THEN 9 ELSE Len(rest))]_vars

\* C37 witness: an 11th distinct path arrived at a full list and the oldest
\* entry left it
C37_Witness ==
  /\ Len(recent_files) = 10
  /\ last_saved # <<>>
  /\ recent_files[1] = abspath(last_saved)
  /\ abspath(last_saved)[2] = 11
  /\ \A i \in 1..10 : recent_files[i] # <<".step", 1>>

\* C38: leaving the independent mode gives every toolbar and the log area
\* the visibility they had when the mode was entered, shows the menu bar,
\* hides the floating rotation button and sets the window opacity to 1.0;
\* entering while in the mode and leaving while not in it change nothing.
C38_IndependentRoundTrip ==
  /\ [][(exit_independent_mode /\ is_independent_mode)
          => /\ tb_visible' = entered_from.tb
             /\ log_visible' = entered_from.log
             /\ menubar_visible' /\ ~float_visible'
             /\ window_opacity' = 100
             /\ ~is_independent_mode']_vars
  /\ [][(enter_independent_mode /\ is_independent_mode) => UNCHANGED vars]_vars
  /\ [][(exit_independent_mode /\ ~is_independent_mode) => UNCHANGED vars]_vars

\* C38 witness: the mode was entered with one toolbar and the log area
\* hidden and was left again
C38_Witness ==
  /\ ~is_independent_mode
  /\ entered_from.tb["tb_render"] = FALSE /\ entered_from.tb["tb_view"]
  /\ ~entered_from.log
  /\ tb_visible = entered_from.tb /\ ~log_visible
  /\ tb_was = entered_from.tb
  /\ menubar_visible /\ ~float_visible /\ window_opacity = 100

\* C39: after any sequence of rotation toggles from either button and of
\* screenshots, saved or cancelled, the rotation timer runs if and only if
\* is_rotating is True, and the toolbar rotation button and the floating
\* rotation button are checked if and only if is_rotating is True.
C39_RotationAgrees ==
  /\ rotation_timer = is_rotating
  /\ rotate_btn = is_rotating
  /\ float_rotate_btn = is_rotating

\* C39 witness: the rotation was switched on, a screenshot was saved while it
\* ran, and the timer runs again
C39_Witness ==
  /\ is_rotating /\ rotation_timer /\ rotate_btn /\ float_rotate_btn
  /\ screenshot_result = "saved"
====
